---------------------------- MODULE Spec2Model ----------------------------
(***************************************************************************)
(* A model of the sux-rs core: bit vectors with Rank9 and                  *)
(* SimpleSelectConst, the Elias-Fano builder and dictionary, the           *)
(* rear-coded list with its VByte code, and the atomic bitmaps.            *)
(*                                                                         *)
(* A 64-bit machine word is modelled as the set of the positions of its    *)
(* set bits (a subset of 0..63), so that shifts, masks, popcounts and the  *)
(* wrapping arithmetic of the source keep their width.  Positions, ranks   *)
(* and counts that stay far below 2^31 in the model are naturals.          *)
(***************************************************************************)
EXTENDS Integers, FiniteSets, Sequences, TLC

VARIABLES
    bv,     \* the bit vector under test: [ones, len]
    r9,     \* Rank9 built over bv: its counts, or <<>> before Rank9::new
    sel,    \* SimpleSelectConst built over bv, or NoSel before new
    rsq,    \* the last rank / select query and its result
    efb,    \* the Elias-Fano builder / built structure
    efq,    \* the last Elias-Fano operation and its result
    rcl,    \* the rear-coded list
    rclq,   \* the last rear-coded list query and its result
    vb,     \* the VByte buffer under test
    atm,    \* the atomic bitmap: words and ones counter
    thr,    \* the threads running set_atomic on atm
    qzi,    \* QuantumZeroIndex built over bv, or <<>> before convert_to
    cbm     \* the non-atomic CountingBitmap under set / get

vars == <<bv, r9, sel, rsq, efb, efq, rcl, rclq, vb, atm, thr, qzi, cbm>>

(***************************************************************************)
(* Machine words                                                           *)
(***************************************************************************)
WORD_BITS == 64

BitPos == 0 .. (WORD_BITS - 1)

Pow2(k) == 2 ^ k

\* iterate Step over i = a, a+1, ..., b-1 in this order, stopping as soon as
\* Done holds (a `break`); the range is split in halves only to keep the
\* depth of evaluation logarithmic in b - a
RECURSIVE Fold(_, _, _, _, _)
Fold(Step(_, _), Done(_), s, a, b) ==
    IF b <= a \/ Done(s) THEN s
    ELSE IF b = a + 1 THEN Step(s, a)
    ELSE LET mid == (a + b) \div 2
             s1 == Fold(Step, Done, s, a, mid)
         IN IF s1 = s1 THEN Fold(Step, Done, s1, mid, b) ELSE s1

Never(s) == FALSE

\* the word holding the natural n < 2^31
RECURSIVE ToWordFrom(_, _)
ToWordFrom(n, i) ==
    IF n = 0 THEN {}
    ELSE (IF n % 2 = 1 THEN {i} ELSE {}) \cup ToWordFrom(n \div 2, i + 1)

ToWord(n) == ToWordFrom(n, 0)

\* the natural held by a word whose bits 31.. are clear
RECURSIVE ToNat(_)
ToNat(w) ==
    IF w = {} THEN 0
    ELSE LET i == CHOOSE x \in w : TRUE IN Pow2(i) + ToNat(w \ {i})

Shl(w, k) == {i + k : i \in {j \in w : j + k < WORD_BITS}}

Shr(w, k) == {i - k : i \in {j \in w : j >= k}}

Not(w) == BitPos \ w

count_ones(w) == Cardinality(w)

\* common_traits::SelectInWord: the position of the set bit of rank r in w
select_in_word(w, r) ==
    CHOOSE p \in w : Cardinality({q \in w : q < p}) = r

RECURSIVE AddRange(_, _, _, _, _)
\* the bits lo .. hi - 1 of a + b and the carry out of bit hi - 1, given the
\* carry c into bit lo.  The range is halved to keep the evaluation shallow,
\* and every intermediate result is bound as the element of a singleton, so
\* that it is computed once
AddRange(a, b, lo, hi, c) ==
    IF hi = lo + 1
      THEN CHOOSE r \in {[bits |-> IF t % 2 = 1 THEN {lo} ELSE {}, carry |-> t \div 2] :
                            t \in {(IF lo \in a THEN 1 ELSE 0)
                                      + (IF lo \in b THEN 1 ELSE 0) + c}} : TRUE
      ELSE LET mid == (lo + hi) \div 2
               High(l) == {[bits |-> l.bits \cup h.bits, carry |-> h.carry] :
                              h \in {AddRange(a, b, mid, hi, l.carry)}}
           IN CHOOSE r \in UNION {High(l) : l \in {AddRange(a, b, lo, mid, c)}} : TRUE

\* wrapping 64-bit addition a + b + cin
AddC(a, b, cin) ==
    CHOOSE s \in {AddRange(x, y, 0, WORD_BITS, cin).bits : x \in {a}, y \in {b}} : TRUE

WAdd(a, b) == AddC(a, b, 0)

WSub(a, b) == AddC(a, Not(b), 1)

WMax(S) == CHOOSE m \in S : \A x \in S : x <= m

\* unsigned comparison a < b
WLess(a, b) ==
    /\ a # b
    /\ WMax((a \ b) \cup (b \ a)) \in b

\* `w as u8`
AsU8(w) == ToNat({i \in w : i < 8})

(***************************************************************************)
(* Bit vectors: BitVec / BitMap contents                                   *)
(***************************************************************************)
div_ceil(a, b) == (a + b - 1) \div b

NumWords(len) == div_ceil(len, WORD_BITS)

\* bits.as_ref()[i]
WordAt(b, i) == {p - i * WORD_BITS : p \in {q \in b.ones : q \div WORD_BITS = i}}

\* the number of set bits of b at positions [0, p)
OnesBefore(b, p) == Cardinality({q \in b.ones : q < p})

(***************************************************************************)
(* Rank9                                                                   *)
(***************************************************************************)
WORDS_PER_BLOCK == 8

XorNat(a, b) == ToNat((ToWord(a) \ ToWord(b)) \cup (ToWord(b) \ ToWord(a)))

\* the relative counter read at shift 9 * word, without the ^ 7
rel_no_xor(c, word) == ToNat({i \in Shr(c.relative, 9 * word) : i < 9})

\* BlockCounters::rel
rel(c, word) ==
    ToNat({i \in Shr(c.relative, 9 * XorNat(word, 7)) : i < 9})

\* set_rel that shifts by 9 * word, without the ^ 7
set_rel_no_xor(c, word, counter) ==
    [c EXCEPT !.relative = @ \cup Shl(ToWord(counter), 9 * word)]

\* BlockCounters::set_rel
set_rel(c, word, counter) ==
    [c EXCEPT !.relative = @ \cup Shl(ToWord(counter), 9 * XorNat(word, 7))]

\* one iteration of the block loop of Rank9::new, for the block starting at
\* word i = blk * WORDS_PER_BLOCK
Rank9BlockStep(b, s, blk) ==
    LET i == blk * WORDS_PER_BLOCK
        num_words == NumWords(b.len)
        count0 == [absolute |-> s.num_ones, relative |-> {}]
        ones0 == s.num_ones + count_ones(WordAt(b, i))
        Inner(t, j) ==
            LET rel_count == t.num_ones - t.count.absolute
            IN [count |-> set_rel(t.count, j, rel_count),
                num_ones |-> IF i + j < num_words
                                THEN t.num_ones + count_ones(WordAt(b, i + j))
                                ELSE t.num_ones]
        t8 == Fold(Inner, Never, [count |-> count0, num_ones |-> ones0], 1, 8)
    IN [counts |-> Append(s.counts, t8.count), num_ones |-> t8.num_ones]

\* Rank9::new: the counts array
Rank9_new(b) ==
    LET num_words == NumWords(b.len)
        Step(s, blk) == Rank9BlockStep(b, s, blk)
        s1 == Fold(Step, Never, [counts |-> <<>>, num_ones |-> 0],
                   0, div_ceil(num_words, WORDS_PER_BLOCK))
    IN Append(s1.counts, [absolute |-> s1.num_ones, relative |-> {}])

\* num_ones read from the first counter
Rank9_num_ones_first(counts) == counts[1].absolute

\* NumBits for Rank9::num_ones
Rank9_num_ones(counts) == counts[Len(counts)].absolute

\* Rank9::rank_unchecked
rank_unchecked(b, counts, pos) ==
    LET word_pos == pos \div WORD_BITS
        block == word_pos \div WORDS_PER_BLOCK
        offset == word_pos % WORDS_PER_BLOCK
        word == WordAt(b, word_pos)
        c == counts[block + 1]
    IN c.absolute + rel(c, offset)
         + count_ones(word \cap WSub(Shl({0}, pos % WORD_BITS), {0}))

\* Rank9::rank
rank(b, counts, pos) ==
    IF pos >= b.len THEN Rank9_num_ones(counts)
    ELSE rank_unchecked(b, counts, pos)

(***************************************************************************)
(* Hinted select over the words of a bit vector                            *)
(***************************************************************************)
\* the result of a scan that read past the last word
Undefined == -1

\* select_unchecked_hinted that keeps the bits below pos of the first word
select_unchecked_hinted_no_mask(b, rnk, pos, rank_at_pos) ==
    LET num_words == NumWords(b.len)
        word_index0 == pos \div WORD_BITS
        word0 == IF word_index0 < num_words THEN WordAt(b, word_index0) ELSE {}
        wrapped == rnk < rank_at_pos
        Found(s) == s.oob \/ (~wrapped /\ s.residual < count_ones(s.word))
        Step(s, k) ==
            IF s.word_index + 1 >= num_words THEN [s EXCEPT !.oob = TRUE]
            ELSE [word_index |-> s.word_index + 1,
                  word |-> WordAt(b, s.word_index + 1),
                  residual |-> s.residual - count_ones(s.word),
                  oob |-> FALSE]
        s1 == Fold(Step, Found,
                   [word_index |-> word_index0, word |-> word0,
                    residual |-> rnk - rank_at_pos, oob |-> word_index0 >= num_words],
                   word_index0, num_words + 1)
    IN IF s1.oob THEN Undefined
       ELSE s1.word_index * WORD_BITS + select_in_word(s1.word, s1.residual)

\* SelectHinted::select_unchecked_hinted: the position of the one of rank
\* `rnk`, given that rank_at_pos ones precede position pos.  The words are
\* read unchecked: a read past the last word is undefined behaviour, and the
\* result is then Undefined
select_unchecked_hinted(b, rnk, pos, rank_at_pos) ==
    LET num_words == NumWords(b.len)
        word_index0 == pos \div WORD_BITS
        bit_index == pos % WORD_BITS
        word0 == IF word_index0 < num_words
                    THEN Shl(Shr(WordAt(b, word_index0), bit_index), bit_index)
                    ELSE {}
        \* rnk - rank_at_pos wraps when rank_at_pos > rnk
        wrapped == rnk < rank_at_pos
        Found(s) == s.oob \/ (~wrapped /\ s.residual < count_ones(s.word))
        Step(s, k) ==
            IF s.word_index + 1 >= num_words THEN [s EXCEPT !.oob = TRUE]
            ELSE [word_index |-> s.word_index + 1,
                  word |-> WordAt(b, s.word_index + 1),
                  residual |-> s.residual - count_ones(s.word),
                  oob |-> FALSE]
        s1 == Fold(Step, Found,
                   [word_index |-> word_index0, word |-> word0,
                    residual |-> rnk - rank_at_pos, oob |-> word_index0 >= num_words],
                   word_index0, num_words + 1)
    IN IF s1.oob THEN Undefined
       ELSE s1.word_index * WORD_BITS + select_in_word(s1.word, s1.residual)

\* Select::select_unchecked of a plain counting bit vector
bv_select_unchecked(b, rnk) == select_unchecked_hinted(b, rnk, 0, 0)

(***************************************************************************)
(* SimpleSelectConst                                                       *)
(***************************************************************************)
U16_MAX == 65535

SIGN_BIT == 63

ONES_PER_INVENTORY(P) == Pow2(P.log2_ones)

U64_PER_SUBINVENTORY(P) == Pow2(P.log2_u64)

U64_PER_INVENTORY(P) == 1 + U64_PER_SUBINVENTORY(P)

ONES_PER_SUB64(P) == Pow2(P.log2_ones - P.log2_u64)

ONES_PER_SUB16(P) == Pow2(P.log2_ones - P.log2_u64 - 2)

INVENTORY_MASK == WSub(Shl({0}, SIGN_BIT), {0})

\* a u64 inventory word seen as four u16 (little endian): slot k
U16Get(w, k) == ToNat({i - 16 * k : i \in {j \in w : j \div 16 = k}})

\* the same word with its u16 slot k set to v
U16Set(w, k, v) ==
    {j \in w : j \div 16 # k} \cup {i + 16 * k : i \in {j \in ToWord(v) : j < 16}}

\* the offset stored in a subinventory slot, with the absolute position instead
sub_offset_absolute(bit_index, start_bit_idx) == bit_index

\* the offset stored in a subinventory slot for the one at bit_index
sub_offset(bit_index, start_bit_idx) == bit_index - start_bit_idx

\* first phase of SimpleSelectConst::new: the loop body for word i
SelInventoryStep(P, b, s, i) ==
    LET word == WordAt(b, i)
        ones_in_word == count_ones(word)
        Skip(t) == ~(t.past_ones + ones_in_word > t.next_quantum)
        Emit(t, k) ==
            LET in_word_index == select_in_word(word, t.next_quantum - t.past_ones)
                index == i * WORD_BITS + in_word_index
            IN [t EXCEPT
                  !.inventory = @ \o <<ToWord(index)>>
                                  \o [x \in 1 .. U64_PER_SUBINVENTORY(P) |-> {}],
                  !.next_quantum = @ + ONES_PER_INVENTORY(P)]
        t1 == Fold(Emit, Skip, s, 0, WORD_BITS + 1)
    IN [t1 EXCEPT !.past_ones = @ + ones_in_word]

\* second phase of SimpleSelectConst::new: the subinventory of one inventory
\* entry; `inv` is the whole inventory, panicked records an index out of bounds
SelSubinventoryStep(P, b, st, inventory_idx) ==
    LET inv0 == st.inventory
        start_idx == inventory_idx * U64_PER_INVENTORY(P)
        end_idx == start_idx + U64_PER_INVENTORY(P)
        start_bit_idx == ToNat(inv0[start_idx + 1])
        end_bit_idx == ToNat(inv0[end_idx + 1])
        span == end_bit_idx - start_bit_idx
        word_idx0 == start_bit_idx \div WORD_BITS
        bit_idx == start_bit_idx % WORD_BITS
        word0 == Shl(Shr(WordAt(b, word_idx0), bit_idx), bit_idx)
        past_ones0 == inventory_idx * ONES_PER_INVENTORY(P)
        quantum == IF span <= U16_MAX THEN ONES_PER_SUB16(P) ELSE ONES_PER_SUB64(P)
        inv1 == IF span <= U16_MAX THEN inv0
                ELSE [inv0 EXCEPT ![start_idx + 1] = @ \cup {SIGN_BIT}]
        end_word_idx == div_ceil(end_bit_idx, WORD_BITS)
        Stop(s) == s.brk \/ s.panicked
        WordStep(s, k) ==
            LET ones_in_word == count_ones(s.word)
                Skip(t) == Stop(t) \/ ~(t.past_ones + ones_in_word > t.next_quantum)
                Write(t, kk) ==
                    LET in_word_index ==
                            select_in_word(s.word, t.next_quantum - t.past_ones)
                        bit_index == s.word_idx * WORD_BITS + in_word_index
                        offset == sub_offset(bit_index, start_bit_idx)
                        u64_at == start_idx + 1 + t.subinventory_idx
                        u16_at == start_idx + 1 + (t.subinventory_idx \div 4)
                        oob == IF span <= U16_MAX
                                  THEN t.subinventory_idx >= 4 * U64_PER_SUBINVENTORY(P)
                                  ELSE u64_at >= Len(t.inventory)
                        inv2 == IF span <= U16_MAX
                                   THEN [t.inventory EXCEPT ![u16_at + 1] =
                                            U16Set(@, t.subinventory_idx % 4, offset)]
                                   ELSE [t.inventory EXCEPT ![u64_at + 1] = ToWord(offset)]
                        done == t.subinventory_idx + 1 = ONES_PER_INVENTORY(P) \div quantum
                    IN IF oob THEN [t EXCEPT !.panicked = TRUE]
                       ELSE [t EXCEPT !.inventory = inv2,
                                      !.subinventory_idx = @ + 1,
                                      !.brk = done,
                                      !.next_quantum = IF done THEN @ ELSE @ + quantum]
                s1 == Fold(Write, Skip, s, 0, WORD_BITS + 1)
            IN IF Stop(s1) THEN s1
               ELSE [s1 EXCEPT !.past_ones = @ + ones_in_word,
                               !.word_idx = @ + 1,
                               !.word = IF s.word_idx + 1 = end_word_idx THEN {}
                                        ELSE WordAt(b, s.word_idx + 1)]
        \* the loop tests word_idx == end_word_idx only after its first pass: from
        \* word_idx0 >= end_word_idx it runs off the end of the words and panics
        fin == Fold(WordStep, Stop,
                    [inventory |-> inv1, word_idx |-> word_idx0, word |-> word0,
                     past_ones |-> past_ones0, next_quantum |-> past_ones0 + quantum,
                     subinventory_idx |-> 1, brk |-> FALSE,
                     panicked |-> word_idx0 >= end_word_idx],
                    word_idx0, end_word_idx)
    IN [inventory |-> fin.inventory, panicked |-> fin.panicked]

\* SimpleSelectConst::new
SimpleSelectConst_new(P, b) ==
    LET num_ones == Cardinality(b.ones)
        inventory_size == div_ceil(num_ones, ONES_PER_INVENTORY(P))
        inventory_words == inventory_size * U64_PER_INVENTORY(P) + 1
        Step1(s, i) == SelInventoryStep(P, b, s, i)
        p1 == Fold(Step1, Never,
                   [inventory |-> <<>>, past_ones |-> 0, next_quantum |-> 0],
                   0, NumWords(b.len))
        inventory1 == Append(p1.inventory, ToWord(b.len))
        asserts == num_ones = p1.past_ones /\ inventory_words = Len(inventory1)
        Panicked(s) == s.panicked
        Step2(s, g) == SelSubinventoryStep(P, b, s, g)
        p2 == Fold(Step2, Panicked, [inventory |-> inventory1, panicked |-> FALSE],
                   0, inventory_size)
    IN [params |-> P, inventory |-> p2.inventory, num_ones |-> num_ones,
        panicked |-> (~asserts) \/ p2.panicked]

\* the hint with the subinventory left unused: the scan starts at the primary
\* position of the group
sel_hint_primary_only(s, rnk) ==
    LET P == s.params
        inventory_index == rnk \div ONES_PER_INVENTORY(P)
        subrank == rnk % ONES_PER_INVENTORY(P)
        start_idx == inventory_index * (1 + U64_PER_SUBINVENTORY(P))
        inventory_rank == s.inventory[start_idx + 1]
    IN [pos |-> ToNat(inventory_rank \cap INVENTORY_MASK),
        rank_at_pos |-> rnk - subrank]

\* the hint (pos, rank_at_pos) that select_unchecked of SimpleSelectConst hands
\* to select_unchecked_hinted of the bit vector
sel_hint(s, rnk) ==
    LET P == s.params
        inventory_index == rnk \div ONES_PER_INVENTORY(P)
        subrank == rnk % ONES_PER_INVENTORY(P)
        start_idx == inventory_index * (1 + U64_PER_SUBINVENTORY(P))
        inventory_rank == s.inventory[start_idx + 1]
        u16_idx == subrank \div ONES_PER_SUB16(P)
        u64_idx == subrank \div ONES_PER_SUB64(P)
        pos == IF SIGN_BIT \notin inventory_rank
                  THEN ToNat(inventory_rank)
                         + U16Get(s.inventory[start_idx + 2 + (u16_idx \div 4)], u16_idx % 4)
                  ELSE ToNat(inventory_rank \cap INVENTORY_MASK)
                         + ToNat(s.inventory[start_idx + 2 + u64_idx])
        residual == IF SIGN_BIT \notin inventory_rank
                       THEN subrank % ONES_PER_SUB16(P)
                       ELSE subrank % ONES_PER_SUB64(P)
    IN [pos |-> pos, rank_at_pos |-> rnk - residual]

\* Select::select_unchecked for SimpleSelectConst
sel_select_unchecked(s, b, rnk) ==
    LET h == sel_hint(s, rnk)
    IN select_unchecked_hinted(b, rnk, h.pos, h.rank_at_pos)

None == [some |-> FALSE]

Some(v) == [some |-> TRUE, val |-> v]

\* Select::select: the checked query
sel_select(s, b, rnk) ==
    IF rnk >= s.num_ones THEN None ELSE Some(sel_select_unchecked(s, b, rnk))

(***************************************************************************)
(* Rank / select: the state machine                                        *)
(***************************************************************************)
\* The bit vectors under test: a length, a few isolated ones and a run of
\* consecutive ones that crosses the first word boundary.  The long length
\* has inventory groups that span more than U16_MAX bits.
Lens == {0, 9, 64, 512, 1030, 70010}

SparsePos(n) ==
    IF n > U16_MAX THEN {69990, 70001}
    ELSE {p \in {0, 63, 64, 511, 512, 1029} : p < n}

MaxSparse == 2

RunStart == 60

MaxRun == 8

Run(k) == {RunStart + j : j \in 0 .. (k - 1)}

\* the instantiations <LOG2_ONES_PER_INVENTORY, LOG2_U64_PER_SUBINVENTORY>
SelParams == {[log2_ones |-> 3, log2_u64 |-> 1], [log2_ones |-> 2, log2_u64 |-> 0]}

NoSel == [params |-> <<>>]

Idle == [op |-> "none"]

\* a vector whose first block of 8 words is all ones, the second block
\* empty and the third block cut short by the length
DenseBlock == [ones |-> (0 .. 511) \cup {1029}, len |-> 1030]

\* a vector whose first four ones span more than U16_MAX bits and whose next
\* ones lie within a few bits of the fourth
WideThenNarrow == [ones |-> {60, 61, 62, 69990, 70001, 70005}, len |-> 70010]

BitVectors ==
    UNION {{[ones |-> s \cup Run(k), len |-> n] :
               s \in {x \in SUBSET SparsePos(n) : Cardinality(x) <= MaxSparse},
               k \in {j \in 0 .. MaxRun : RunStart + j <= n}} :
           n \in Lens}
      \cup {DenseBlock, WideThenNarrow}

\* the positions rank is asked at
RankPos(b) ==
    {p \in SparsePos(b.len) \cup {RunStart + 1, RunStart + MaxRun, 1000,
                                  b.len - 1, b.len, b.len + 1} : p >= 0}

rsOthers ==
    <<efb, efq, rcl, rclq, vb, atm, thr, qzi, cbm>>

RSInit ==
    /\ bv \in BitVectors
    /\ r9 = <<>>
    /\ sel = NoSel
    /\ rsq = Idle
    /\ efb = <<>> /\ efq = Idle /\ rcl = <<>> /\ rclq = Idle
    /\ vb = <<>>
    /\ qzi = <<>> /\ cbm = <<>> /\ atm = <<>> /\ thr = <<>>

\* Rank9::new(bits)
Rank9New ==
    /\ r9 = <<>>
    /\ rsq = Idle
    /\ r9' = Rank9_new(bv)
    /\ UNCHANGED <<bv, sel, rsq>>
    /\ UNCHANGED rsOthers

\* SimpleSelectConst::<_, _, log2_ones, log2_u64>::new(bits)
SelNew ==
    /\ sel = NoSel
    /\ rsq = Idle
    /\ \E P \in SelParams : sel' = SimpleSelectConst_new(P, bv)
    /\ UNCHANGED <<bv, r9, rsq>>
    /\ UNCHANGED rsOthers

\* rank(pos)
RankQuery ==
    /\ r9 # <<>>
    /\ rsq = Idle
    /\ \E pos \in RankPos(bv) :
          rsq' = [op |-> "rank", arg |-> pos, res |-> rank(bv, r9, pos)]
    /\ UNCHANGED <<bv, r9, sel>>
    /\ UNCHANGED rsOthers

\* select(rank)
SelectQuery ==
    /\ sel # NoSel
    /\ ~sel.panicked
    /\ rsq = Idle
    /\ \E rnk \in 0 .. (Cardinality(bv.ones) + 1) :
          rsq' = [op |-> "select", arg |-> rnk, res |-> sel_select(sel, bv, rnk),
                  hint |-> IF rnk < sel.num_ones THEN sel_hint(sel, rnk) ELSE None]
    /\ UNCHANGED <<bv, r9, sel>>
    /\ UNCHANGED rsOthers

\* rank(select(i)) on the select structure over Rank9, for i < num_ones
RankOfSelect ==
    /\ r9 # <<>>
    /\ sel # NoSel
    /\ ~sel.panicked
    /\ rsq = Idle
    /\ \E i \in 0 .. (Cardinality(bv.ones) - 1) :
          LET s == sel_select(sel, bv, i)
          IN rsq' = [op |-> "rank_select", arg |-> i, mid |-> s,
                     res |-> IF s.some THEN rank(bv, r9, s.val) ELSE Undefined]
    /\ UNCHANGED <<bv, r9, sel>>
    /\ UNCHANGED rsOthers

\* select(rank(p)) for a position p whose bit is set
SelectOfRank ==
    /\ r9 # <<>>
    /\ sel # NoSel
    /\ ~sel.panicked
    /\ rsq = Idle
    /\ \E p \in bv.ones :
          LET r == rank(bv, r9, p)
          IN rsq' = [op |-> "select_rank", arg |-> p, mid |-> r,
                     res |-> sel_select(sel, bv, r)]
    /\ UNCHANGED <<bv, r9, sel>>
    /\ UNCHANGED rsOthers

RSNext ==
    \/ Rank9New \/ SelNew \/ RankQuery \/ SelectQuery
    \/ RankOfSelect \/ SelectOfRank

SpecRankSel == RSInit /\ [][RSNext]_vars

\* the position of the set bit of rank r of b
TrueSelect(b, r) == CHOOSE p \in b.ones : OnesBefore(b, p) = r

\* C1: rank(p) of Rank9::new(B) is the number of set bits of B in [0, p), for
\* every position p with 0 <= p <= |B|
C1_RankIsPopcountBefore ==
    (rsq.op = "rank" /\ rsq.arg <= bv.len) => rsq.res = OnesBefore(bv, rsq.arg)

C1_Witness ==
    /\ rsq.op = "rank" /\ rsq.arg < bv.len /\ rsq.arg > 512 /\ rsq.res >= 3

\* C2: select(r) of SimpleSelectConst::new(B) is the position of the one of
\* rank r when B has more than r ones, and None otherwise, for groups stored
\* in u16 mode and in u64 mode
C2_SelectIsPositionOfOne ==
    rsq.op = "select" =>
        rsq.res = IF rsq.arg < Cardinality(bv.ones)
                     THEN Some(TrueSelect(bv, rsq.arg)) ELSE None

\* C13: for p >= |B|, rank(p) of Rank9::new(B) is the number of set bits of B,
\* the absolute field of the last counter, also when |B| is a multiple of 512
\* and when |B| = 0
C13_RankPastEnd ==
    (rsq.op = "rank" /\ rsq.arg >= bv.len) =>
        /\ rsq.res = Cardinality(bv.ones)
        /\ rsq.res = r9[Len(r9)].absolute
        /\ Len(r9) = div_ceil(bv.len, WORD_BITS * WORDS_PER_BLOCK) + 1

C13_Witness ==
    /\ rsq.op = "rank" /\ bv.len = 512 /\ rsq.arg = 513
    /\ 511 \in bv.ones /\ rsq.res >= 3

\* C14: on SimpleSelectConst::new(Rank9::new(B)), rank(select(i)) = i for every
\* i < popcount(B), and select(rank(p)) is present and >= p for every p whose
\* bit is set
C14_RankSelectInverse ==
    /\ rsq.op = "rank_select" => rsq.mid.some /\ rsq.res = rsq.arg
    /\ rsq.op = "select_rank" => rsq.res.some /\ rsq.res.val >= rsq.arg

\* the same, for the instantiations whose subinventories span at least two words
C14_InverseWideSubinventory ==
    (sel # NoSel /\ sel.params.log2_u64 >= 1) => C14_RankSelectInverse

\* the number of set bits of words [from, to) of b
OnesInWords(b, from, to) ==
    Cardinality({q \in b.ones : from * WORD_BITS <= q /\ q < to * WORD_BITS})

\* C20: Rank9::new(B) makes ceil(|B| / 512) + 1 counters; counters[b].absolute
\* is the popcount of the words of the earlier blocks, rel(0) = 0 and rel(j),
\* j in 1..7, is the popcount of words 0..j-1 of block b; every relative count
\* is at most 448, so it fits the 9 bits set_rel gives it; the last counter
\* has absolute = popcount(B) and relative = 0
C20_Rank9Counters ==
    (r9 # <<>> /\ rsq = Idle /\ sel = NoSel) =>
        LET blocks == div_ceil(bv.len, WORD_BITS * WORDS_PER_BLOCK)
        IN /\ Len(r9) = blocks + 1
           /\ \A b \in 0 .. (blocks - 1) :
                 /\ r9[b + 1].absolute = OnesInWords(bv, 0, b * WORDS_PER_BLOCK)
                 /\ rel(r9[b + 1], 0) = 0
                 /\ \A j \in 1 .. 7 :
                       /\ rel(r9[b + 1], j) =
                             OnesInWords(bv, b * WORDS_PER_BLOCK,
                                         b * WORDS_PER_BLOCK + j)
                       /\ rel(r9[b + 1], j) <= 448
                 /\ r9[b + 1].relative \subseteq 0 .. 62
           /\ r9[blocks + 1].absolute = Cardinality(bv.ones)
           /\ r9[blocks + 1].relative = {}

C20_Witness ==
    /\ r9 # <<>> /\ rsq = Idle /\ sel = NoSel
    /\ bv = DenseBlock
    /\ rel(r9[1], 7) = 448
    /\ r9[3].absolute = 512 /\ rel(r9[3], 1) = 1
    /\ r9[4].absolute = 513

\* the inventory groups of s, and the ranks of the ones of group g
Groups(s) == 0 .. (div_ceil(s.num_ones, ONES_PER_INVENTORY(s.params)) - 1)

GroupRanks(s, g) ==
    {r \in 0 .. (s.num_ones - 1) : r \div ONES_PER_INVENTORY(s.params) = g}

\* the primary entry of group g (the sentinel for g = number of groups), and
\* the position it holds
Primary(s, g) == s.inventory[g * U64_PER_INVENTORY(s.params) + 1]

PrimaryPos(s, g) == ToNat(Primary(s, g) \cap INVENTORY_MASK)

\* where group g starts and ends in the bit vector
GroupStart(s, g) == TrueSelect(bv, g * ONES_PER_INVENTORY(s.params))

GroupEnd(s, g) ==
    IF (g + 1) * ONES_PER_INVENTORY(s.params) < s.num_ones
       THEN GroupStart(s, g + 1) ELSE bv.len

GroupSpan(s, g) == GroupEnd(s, g) - GroupStart(s, g)

\* the u16 slot j and the u64 word j of the subinventory of group g
SubU16(s, g, j) ==
    U16Get(s.inventory[g * U64_PER_INVENTORY(s.params) + 2 + (j \div 4)], j % 4)

SubU64(s, g, j) == s.inventory[g * U64_PER_INVENTORY(s.params) + 2 + j]

\* SimpleSelectConst::new has just returned
SelBuilt == sel # NoSel /\ rsq = Idle

\* C21: after SimpleSelectConst::new(B) the assertions of new hold, the
\* inventory has ceil(popcount / ONES_PER_INVENTORY) * (1 + U64_PER_SUBINVENTORY)
\* + 1 words, the g-th primary entry masked with INVENTORY_MASK is the position
\* of the one of rank g * ONES_PER_INVENTORY, the primary entries are strictly
\* increasing and the last word is |B|
C21_PrimaryInventory ==
    SelBuilt =>
        /\ ~sel.panicked
        /\ Len(sel.inventory) =
              div_ceil(sel.num_ones, ONES_PER_INVENTORY(sel.params))
                 * U64_PER_INVENTORY(sel.params) + 1
        /\ \A g \in Groups(sel) : PrimaryPos(sel, g) = GroupStart(sel, g)
        /\ \A g \in Groups(sel) :
              g + 1 \in Groups(sel) => PrimaryPos(sel, g) < PrimaryPos(sel, g + 1)
        /\ sel.inventory[Len(sel.inventory)] = ToWord(bv.len)

\* the same for the instantiations whose subinventories span at least two words
C21_PrimaryInventoryWide ==
    (sel # NoSel /\ sel.params.log2_u64 >= 1) => C21_PrimaryInventory

\* C22: the sign bit of the primary entry of a group is clear iff the span of
\* the group is at most 65535; then u16 slot 0 is 0 and slot j holds the
\* offset from the primary position, smaller than 65536, of the one of rank
\* j * ONES_PER_SUB16 within the group, if there is one
C22_U16Subinventory ==
    (SelBuilt /\ ~sel.panicked) =>
        \A g \in Groups(sel) :
            /\ SIGN_BIT \notin Primary(sel, g) <=> GroupSpan(sel, g) <= U16_MAX
            /\ SIGN_BIT \notin Primary(sel, g) =>
                  /\ SubU16(sel, g, 0) = 0
                  /\ \A j \in 1 .. (4 * U64_PER_SUBINVENTORY(sel.params) - 1) :
                        LET r == g * ONES_PER_INVENTORY(sel.params)
                                    + j * ONES_PER_SUB16(sel.params)
                        IN r \in GroupRanks(sel, g) =>
                              /\ SubU16(sel, g, j)
                                    = TrueSelect(bv, r) - PrimaryPos(sel, g)
                              /\ SubU16(sel, g, j) <= U16_MAX

C22_U16SubinventoryWide ==
    (sel # NoSel /\ sel.params.log2_u64 >= 1) => C22_U16Subinventory

\* C23: for a group whose span exceeds 65535 the sign bit of the primary entry
\* is set and each written subinventory u64 word j >= 1 holds the absolute
\* position of the one of rank j * ONES_PER_SUB64 within the group
C23_U64SubinventoryAbsolute ==
    (SelBuilt /\ ~sel.panicked) =>
        \A g \in Groups(sel) :
            GroupSpan(sel, g) > U16_MAX =>
                /\ SIGN_BIT \in Primary(sel, g)
                /\ \A j \in 1 .. (U64_PER_SUBINVENTORY(sel.params) - 1) :
                      LET r == g * ONES_PER_INVENTORY(sel.params)
                                  + j * ONES_PER_SUB64(sel.params)
                      IN r \in GroupRanks(sel, g) =>
                            SubU64(sel, g, j) = ToWord(TrueSelect(bv, r))

\* C23 with the offset the code stores: the position of the one relative to
\* the position of the first one of the group
C23_U64SubinventoryRelative ==
    (SelBuilt /\ ~sel.panicked) =>
        \A g \in Groups(sel) :
            GroupSpan(sel, g) > U16_MAX =>
                /\ SIGN_BIT \in Primary(sel, g)
                /\ \A j \in 1 .. (U64_PER_SUBINVENTORY(sel.params) - 1) :
                      LET r == g * ONES_PER_INVENTORY(sel.params)
                                  + j * ONES_PER_SUB64(sel.params)
                      IN r \in GroupRanks(sel, g) =>
                            SubU64(sel, g, j) =
                               ToWord(TrueSelect(bv, r) - GroupStart(sel, g))

C23_Witness ==
    /\ SelBuilt /\ ~sel.panicked
    /\ sel.params.log2_u64 = 1
    /\ bv.len = 70010 /\ sel.num_ones = 8
    /\ SIGN_BIT \in Primary(sel, 0)
    /\ SubU64(sel, 0, 1) = ToWord(4)


\* C24: for every select(r) with r < popcount(B), in a group of either mode, the
\* hint (pos, rank_at_pos) handed to the bit vector has r - rank_at_pos <
\* ONES_PER_SUB16, whatever |B|
C24_ResidualBelowSub16 ==
    (rsq.op = "select" /\ rsq.arg < sel.num_ones) =>
        rsq.arg - rsq.hint.rank_at_pos < ONES_PER_SUB16(sel.params)

\* C24 with the bound of each mode: ONES_PER_SUB16 for a group stored as u16
\* offsets, ONES_PER_SUB64 for a group stored as u64 offsets
C24_ResidualBelowQuantum ==
    (rsq.op = "select" /\ rsq.arg < sel.num_ones) =>
        LET g == rsq.arg \div ONES_PER_INVENTORY(sel.params)
            residual == rsq.arg - rsq.hint.rank_at_pos
        IN /\ residual >= 0
           /\ SIGN_BIT \notin Primary(sel, g) =>
                 residual < ONES_PER_SUB16(sel.params)
           /\ SIGN_BIT \in Primary(sel, g) =>
                 residual < ONES_PER_SUB64(sel.params)

C24_Witness ==
    /\ rsq.op = "select" /\ rsq.arg < sel.num_ones
    /\ sel.params.log2_u64 = 1
    /\ SIGN_BIT \in Primary(sel, rsq.arg \div ONES_PER_INVENTORY(sel.params))
    /\ rsq.arg - rsq.hint.rank_at_pos = ONES_PER_SUB64(sel.params) - 1
    /\ rsq.res = Some(TrueSelect(bv, rsq.arg))

(***************************************************************************)
(* Select and select-zero on a CountingBitmap, and QuantumZeroIndex        *)
(***************************************************************************)
\* SelectZeroHinted::select_zero_unchecked_hinted of CountingBitmap: the
\* position of the zero of rank `rnk`, given that rank_at_pos zeros precede
\* position pos; Undefined after a read past the last word
select_zero_unchecked_hinted(b, rnk, pos, rank_at_pos) ==
    LET num_words == NumWords(b.len)
        word_index0 == pos \div WORD_BITS
        bit_index == pos % WORD_BITS
        word0 == IF word_index0 < num_words
                    THEN Shl(Shr(Not(WordAt(b, word_index0)), bit_index), bit_index)
                    ELSE {}
        wrapped == rnk < rank_at_pos
        Found(s) == s.oob \/ (~wrapped /\ s.residual < count_ones(s.word))
        Step(s, k) ==
            IF s.word_index + 1 >= num_words THEN [s EXCEPT !.oob = TRUE]
            ELSE [word_index |-> s.word_index + 1,
                  word |-> Not(WordAt(b, s.word_index + 1)),
                  residual |-> s.residual - count_ones(s.word),
                  oob |-> FALSE]
        s1 == Fold(Step, Found,
                   [word_index |-> word_index0, word |-> word0,
                    residual |-> rnk - rank_at_pos, oob |-> word_index0 >= num_words],
                   word_index0, num_words + 1)
    IN IF s1.oob THEN Undefined
       ELSE s1.word_index * WORD_BITS + select_in_word(s1.word, s1.residual)

\* build_zeros that records the zeros of the padding of the last word too
build_zeros_with_padding(Q, b, zeros0) ==
    LET Stop(s) == s.returned \/ s.panicked
        WordStep(s, i) ==
            LET word == Not(WordAt(b, i))
                ones_in_word == count_ones(word)
                Skip(t) == Stop(t) \/ ~(t.number_of_ones + ones_in_word > t.next_quantum)
                Emit(t, k) ==
                    LET in_word_index ==
                            select_in_word(word, t.next_quantum - t.number_of_ones)
                        index == i * WORD_BITS + in_word_index
                    IN IF t.ones_index >= Len(t.zeros)
                          THEN [t EXCEPT !.panicked = TRUE]
                       ELSE [t EXCEPT !.zeros[t.ones_index + 1] = index,
                                      !.next_quantum = @ + Pow2(Q),
                                      !.ones_index = @ + 1]
                t1 == Fold(Emit, Skip, s, 0, WORD_BITS + 1)
            IN IF Stop(t1) THEN t1
               ELSE [t1 EXCEPT !.number_of_ones = @ + ones_in_word]
        fin == Fold(WordStep, Stop,
                    [zeros |-> zeros0, number_of_ones |-> 0, next_quantum |-> 0,
                     ones_index |-> 0, returned |-> FALSE, panicked |-> FALSE],
                    0, NumWords(b.len))
    IN [zeros |-> fin.zeros, panicked |-> fin.panicked]

\* QuantumZeroIndex::build_zeros over the words of b, into the array zeros0;
\* the words are negated, so the padding of the last word reads as zeros of
\* the vector, and the scan returns at the first index >= len
build_zeros(Q, b, zeros0) ==
    LET Stop(s) == s.returned \/ s.panicked
        WordStep(s, i) ==
            LET word == Not(WordAt(b, i))
                ones_in_word == count_ones(word)
                Skip(t) == Stop(t) \/ ~(t.number_of_ones + ones_in_word > t.next_quantum)
                Emit(t, k) ==
                    LET in_word_index ==
                            select_in_word(word, t.next_quantum - t.number_of_ones)
                        index == i * WORD_BITS + in_word_index
                    IN IF index >= b.len THEN [t EXCEPT !.returned = TRUE]
                       ELSE IF t.ones_index >= Len(t.zeros)
                          THEN [t EXCEPT !.panicked = TRUE]
                       ELSE [t EXCEPT !.zeros[t.ones_index + 1] = index,
                                      !.next_quantum = @ + Pow2(Q),
                                      !.ones_index = @ + 1]
                t1 == Fold(Emit, Skip, s, 0, WORD_BITS + 1)
            IN IF Stop(t1) THEN t1
               ELSE [t1 EXCEPT !.number_of_ones = @ + ones_in_word]
        fin == Fold(WordStep, Stop,
                    [zeros |-> zeros0, number_of_ones |-> 0, next_quantum |-> 0,
                     ones_index |-> 0, returned |-> FALSE, panicked |-> FALSE],
                    0, NumWords(b.len))
    IN [zeros |-> fin.zeros, panicked |-> fin.panicked]

\* ConvertTo<QuantumZeroIndex<B, Vec<usize>, Q>> for B
QuantumZeroIndex_convert_to(Q, b) ==
    LET size == (b.len - Cardinality(b.ones) + Pow2(Q) - 1) \div Pow2(Q)
        res == build_zeros(Q, b, [j \in 1 .. size |-> 0])
    IN [quantum_log2 |-> Q, zeros |-> res.zeros, panicked |-> res.panicked]

\* SelectZero for QuantumZeroIndex::select_zero_unchecked; zeros is read
\* unchecked
qzi_select_zero_unchecked(z, b, rnk) ==
    LET index == rnk \div Pow2(z.quantum_log2)
        rank_at_pos == index * Pow2(z.quantum_log2)
    IN IF index >= Len(z.zeros) THEN Undefined
       ELSE select_zero_unchecked_hinted(b, rnk, z.zeros[index + 1], rank_at_pos)

\* the position of the zero of rank r among the bits [0, len) of b
TrueSelectZero(b, r) ==
    CHOOSE p \in {r + k : k \in 0 .. Cardinality(b.ones)} :
        p \notin b.ones /\ OnesBefore(b, p) = p - r

NumZeros(b) == b.len - Cardinality(b.ones)

\* QUANTUM_LOG2 of the instantiations: the default 6 and one other that keeps
\* the zeros array of the longest vector within a few thousand entries
QuantumLogs(n) == IF n > U16_MAX THEN {6, 10} ELSE {2, 6}

\* the hints tried for the one of rank rnk: positions at or before the answer
HintPos(b, rnk) ==
    LET ans == TrueSelect(b, rnk)
    IN {p \in {0, 1, RunStart + 1, 63, 64, 65, ans - 1, ans} :
           0 <= p /\ p <= ans}

\* the ranks select is asked at
SelectRanks(b) ==
    {r \in (0 .. 9) \cup {63, 64, 65, 511, 512} : r < Cardinality(b.ones)}

\* the ranks select_zero is asked at
ZeroRanks(z, b) ==
    LET q == Pow2(z.quantum_log2)
    IN {r \in {0, 1, q - 1, q, q + 1, RunStart, 8 * q - 1, 8 * q,
               NumZeros(b) \div 2, NumZeros(b) - 2, NumZeros(b) - 1} :
           0 <= r /\ r < NumZeros(b)}

bsOthers == <<r9, sel, efb, efq, rcl, rclq, vb, atm, thr, cbm>>

BSInit ==
    /\ bv \in BitVectors
    /\ qzi = <<>>
    /\ rsq = Idle
    /\ r9 = <<>> /\ sel = NoSel
    /\ efb = <<>> /\ efq = Idle /\ rcl = <<>> /\ rclq = Idle
    /\ vb = <<>> /\ atm = <<>> /\ thr = <<>> /\ cbm = <<>>

\* select_unchecked_hinted(rank, pos, rank_at_pos) with a valid hint, and
\* select_unchecked(rank), on the bitmap itself: convert_to(self) moves it
\* into the index
SelectHinted ==
    /\ qzi = <<>>
    /\ rsq = Idle
    /\ \E rnk \in SelectRanks(bv) : \E pos \in HintPos(bv, rnk) :
          rsq' = [op |-> "select_hinted", arg |-> rnk, pos |-> pos,
                  rank_at_pos |-> OnesBefore(bv, pos),
                  res |-> select_unchecked_hinted(bv, rnk, pos, OnesBefore(bv, pos)),
                  plain |-> bv_select_unchecked(bv, rnk)]
    /\ UNCHANGED <<bv, qzi>>
    /\ UNCHANGED bsOthers

\* bits.convert_to::<QuantumZeroIndex<_, _, Q>>()
ZeroIndexNew ==
    /\ qzi = <<>>
    /\ rsq = Idle
    /\ \E Q \in QuantumLogs(bv.len) : qzi' = QuantumZeroIndex_convert_to(Q, bv)
    /\ UNCHANGED <<bv, rsq>>
    /\ UNCHANGED bsOthers

\* select_zero_unchecked(rank) on the QuantumZeroIndex
SelectZero ==
    /\ qzi # <<>>
    /\ ~qzi.panicked
    /\ rsq = Idle
    /\ \E rnk \in ZeroRanks(qzi, bv) :
          rsq' = [op |-> "select_zero", arg |-> rnk,
                  res |-> qzi_select_zero_unchecked(qzi, bv, rnk)]
    /\ UNCHANGED <<bv, qzi>>
    /\ UNCHANGED bsOthers

BSNext == SelectHinted \/ ZeroIndexNew \/ SelectZero

SpecBitSelect == BSInit /\ [][BSNext]_vars

\* C25: on a CountingBitmap whose padding bits are zero, for every rank <
\* count() and every valid hint (pos at or before the answer, rank_at_pos the
\* number of ones in [0, pos)), select_unchecked_hinted returns the position
\* of the one of that rank and reads no word past the last; the result is
\* the same for every valid hint and select_unchecked(rank) is the call with
\* the hint (0, 0)
C25_HintedSelect ==
    rsq.op = "select_hinted" =>
        /\ rsq.res # Undefined
        /\ rsq.res = TrueSelect(bv, rsq.arg)
        /\ rsq.plain = rsq.res

C25_Witness ==
    /\ rsq.op = "select_hinted"
    /\ rsq.pos % WORD_BITS # 0 /\ rsq.rank_at_pos >= 1
    /\ rsq.arg > rsq.rank_at_pos
    /\ rsq.res \div WORD_BITS > rsq.pos \div WORD_BITS
    /\ rsq.res = TrueSelect(bv, rsq.arg)

\* C26: converting B of length len with c ones into a QuantumZeroIndex with
\* quantum 2^Q builds a zeros array of ceil((len - c) / 2^Q) entries, entry j
\* being the position of the zero of rank j * 2^Q among the bits [0, len), the
\* padding never recorded; select_zero_unchecked(r) is, for every r < len - c,
\* the position of the zero of rank r, which is < len
C26_QuantumZeroIndex ==
    /\ (qzi # <<>> /\ rsq = Idle) =>
          /\ ~qzi.panicked
          /\ Len(qzi.zeros) = div_ceil(NumZeros(bv), Pow2(qzi.quantum_log2))
          /\ \A j \in 0 .. (Len(qzi.zeros) - 1) :
                /\ qzi.zeros[j + 1] = TrueSelectZero(bv, j * Pow2(qzi.quantum_log2))
                /\ qzi.zeros[j + 1] < bv.len
    /\ rsq.op = "select_zero" =>
          /\ rsq.res = TrueSelectZero(bv, rsq.arg)
          /\ rsq.res < bv.len /\ rsq.res \notin bv.ones

\* the last word has padding, the number of zeros is a multiple of the quantum
\* and the last zero of the vector is asked for
C26_Witness ==
    /\ qzi # <<>> /\ rsq.op = "select_zero"
    /\ bv.len % WORD_BITS # 0
    /\ NumZeros(bv) % Pow2(qzi.quantum_log2) = 0
    /\ Len(qzi.zeros) >= 2
    /\ rsq.arg = NumZeros(bv) - 1
    /\ rsq.res = bv.len - 1

(***************************************************************************)
(* Bitmap writes and the Elias-Fano builder                                *)
(***************************************************************************)
\* data.set_unchecked(word_index, w) on the words of b
SetWord(b, word_index, w) ==
    [b EXCEPT !.ones = {p \in @ : p \div WORD_BITS # word_index}
                          \cup {word_index * WORD_BITS + i : i \in w}]

\* VSliceMut for BitMap::set_unchecked
set_unchecked(b, index, value) ==
    LET word_index == index \div WORD_BITS
        bit_index == index % WORD_BITS
        word == WordAt(b, word_index)
        new_word == (word \cap Not(Shl({0}, bit_index)))
                        \cup Shl(ToWord(value), bit_index)
    IN SetWord(b, word_index, new_word)

\* BitMap<Vec<u64>>::count_ones
bm_count_ones(b) ==
    LET Add(acc, i) == acc + count_ones(WordAt(b, i))
    IN Fold(Add, Never, 0, 0, NumWords(b.len))

\* BitMap::with_count: the counting bitmap, and whether a debug assertion failed
with_count(b, number_of_ones) ==
    [data |-> b, number_of_ones |-> number_of_ones,
     assert_failed |-> ~(number_of_ones <= b.len)
                          \/ number_of_ones # bm_count_ones(b)]

\* CompactArray::new(w, n): n values of w bits, all zero
CompactArray_new(w, n) == [bit_width |-> w, vals |-> [i \in 1 .. n |-> 0]]

\* CompactArray::set: element index holds the low bit_width bits of value
CompactArray_set(a, index, value) ==
    [a EXCEPT !.vals[index + 1] =
        ToNat(ToWord(value) \cap WSub(Shl({0}, a.bit_width), {0}))]

\* CompactArray::get
CompactArray_get(a, index) == a.vals[index + 1]

\* floor(log2(u / n)) of EliasFanoBuilder::new, for u >= n >= 1
FloorLog2Ratio(u, n) ==
    CHOOSE l \in 0 .. WORD_BITS : n * Pow2(l) <= u /\ u < n * Pow2(l + 1)

\* EliasFanoBuilder::new with a high-bit vector of n + ceil(u / 2^l) + 1 bits
EliasFanoBuilder_new_ceil(n, u) ==
    LET l == IF u >= n THEN FloorLog2Ratio(u, n) ELSE 0
    IN [u |-> u, n |-> n, l |-> l,
        low_bits |-> CompactArray_new(l, n),
        high_bits |-> [ones |-> {}, len |-> n + div_ceil(u, Pow2(l)) + 1],
        last_value |-> 0, count |-> 0, pushed |-> <<>>]

\* EliasFanoBuilder::new; pushed is the history of the accepted values
EliasFanoBuilder_new(n, u) ==
    LET l == IF u >= n THEN FloorLog2Ratio(u, n) ELSE 0
    IN [u |-> u, n |-> n, l |-> l,
        low_bits |-> CompactArray_new(l, n),
        high_bits |-> [ones |-> {}, len |-> n + ToNat(Shr(ToWord(u), l)) + 1],
        last_value |-> 0, count |-> 0, pushed |-> <<>>]

\* push_unchecked with the high position (value >> l), without + count
push_unchecked_no_count(b, value) ==
    LET low == ToNat(ToWord(value) \cap WSub(Shl({0}, b.l), {0}))
        high == ToNat(Shr(ToWord(value), b.l))
    IN [b EXCEPT !.low_bits = CompactArray_set(@, b.count, low),
                 !.high_bits = set_unchecked(@, high, 1),
                 !.count = @ + 1,
                 !.last_value = value,
                 !.pushed = Append(@, value)]

\* push_unchecked with the high position value + count, without >> l
push_unchecked_no_shift(b, value) ==
    LET low == ToNat(ToWord(value) \cap WSub(Shl({0}, b.l), {0}))
        high == value + b.count
    IN [b EXCEPT !.low_bits = CompactArray_set(@, b.count, low),
                 !.high_bits = set_unchecked(@, high, 1),
                 !.count = @ + 1,
                 !.last_value = value,
                 !.pushed = Append(@, value)]

\* EliasFanoBuilder::push_unchecked
push_unchecked(b, value) ==
    LET low == ToNat(ToWord(value) \cap WSub(Shl({0}, b.l), {0}))
        high == ToNat(Shr(ToWord(value), b.l)) + b.count
    IN [b EXCEPT !.low_bits = CompactArray_set(@, b.count, low),
                 !.high_bits = set_unchecked(@, high, 1),
                 !.count = @ + 1,
                 !.last_value = value,
                 !.pushed = Append(@, value)]

\* push that forgets the monotonicity test
push_no_monotone(b, value) ==
    IF b.count = b.n THEN [ok |-> FALSE, b |-> b]
    ELSE IF value >= b.u THEN [ok |-> FALSE, b |-> b]
    ELSE [ok |-> TRUE, b |-> push_unchecked(b, value)]

\* EliasFanoBuilder::push: Err leaves the builder as it was
push(b, value) ==
    IF b.count = b.n THEN [ok |-> FALSE, b |-> b]
    ELSE IF value >= b.u THEN [ok |-> FALSE, b |-> b]
    ELSE IF value < b.last_value THEN [ok |-> FALSE, b |-> b]
    ELSE [ok |-> TRUE, b |-> push_unchecked(b, value)]

\* EliasFanoBuilder::build
build(b) ==
    [u |-> b.u, n |-> b.n, l |-> b.l, low_bits |-> b.low_bits,
     high_bits |-> with_count(b.high_bits, b.n), pushed |-> b.pushed]

\* IndexedDict for EliasFano::get_unchecked
ef_get_unchecked(ef, index) ==
    LET s == bv_select_unchecked(ef.high_bits.data, index)
        high_bits == s - index
        low_bits == CompactArray_get(ef.low_bits, index)
    IN IF s = Undefined THEN Undefined
       ELSE ToNat(Shl(ToWord(high_bits), ef.l) \cup ToWord(low_bits))

(***************************************************************************)
(* Elias-Fano: the state machine                                           *)
(***************************************************************************)
MaxN == 3

MaxU == 6

efOthers ==
    <<bv, r9, sel, rsq, rcl, rclq, vb, atm, thr, qzi, cbm>>

\* EliasFanoBuilder::new(n, u) for every n in 1..MaxN and u in 0..MaxU
EFInit ==
    /\ efb \in {[kind |-> "builder", v |-> EliasFanoBuilder_new(n, u)] :
                  n \in 1 .. MaxN, u \in 0 .. MaxU}
    /\ efq = Idle
    /\ bv = <<>> /\ r9 = <<>> /\ sel = NoSel /\ rsq = Idle
    /\ rcl = <<>> /\ rclq = Idle /\ vb = <<>>
    /\ qzi = <<>> /\ cbm = <<>> /\ atm = <<>> /\ thr = <<>>

\* builder.push(value); the query records the builder as it was before
EFPush ==
    /\ efb.kind = "builder"
    /\ \E value \in 0 .. MaxU :
          LET r == push(efb.v, value)
          IN /\ efb' = [efb EXCEPT !.v = r.b]
             /\ efq' = [op |-> "push", arg |-> value, ok |-> r.ok, pre |-> efb.v,
                        after_error |-> efq.op = "push" /\ ~efq.ok]
    /\ UNCHANGED efOthers

\* builder.build()
EFBuild ==
    /\ efb.kind = "builder"
    /\ efb' = [kind |-> "ef", v |-> build(efb.v)]
    /\ efq' = [op |-> "build"]
    /\ UNCHANGED efOthers

\* ef.get(index) for index < len
EFGet ==
    /\ efb.kind = "ef"
    /\ \E index \in 0 .. (efb.v.n - 1) :
          efq' = [op |-> "get", arg |-> index,
                  res |-> ef_get_unchecked(efb.v, index)]
    /\ UNCHANGED efb
    /\ UNCHANGED efOthers

EFNext == EFPush \/ EFBuild \/ EFGet

SpecEF == EFInit /\ [][EFNext]_vars

\* C3: after pushing a monotone sequence v_0 <= ... <= v_{n-1} < u into
\* EliasFanoBuilder::new(n, u) and build(), get(i) returns v_i for every i < n
C3_GetReturnsPushed ==
    (efb.kind = "ef" /\ efq.op = "get" /\ Len(efb.v.pushed) = efb.v.n) =>
        efq.res = efb.v.pushed[efq.arg + 1]

C3_Witness ==
    /\ efb.kind = "ef" /\ efq.op = "get"
    /\ efb.v.n = 3 /\ efb.v.l >= 1
    /\ efb.v.pushed = <<1, 5, 5>>
    /\ efq.arg = 2 /\ efq.res = 5

\* the value push compares with: the last accepted value, 0 before the first
PreviousValue(b) == IF b.pushed = <<>> THEN 0 ELSE b.pushed[Len(b.pushed)]

\* C4: push(v) fails exactly when count = n, or v >= u, or v is smaller than
\* the previously pushed value; a failed push leaves count, last_value, low
\* bits and high bits as they were, and a successful one adds 1 to count
C4_PushErrorsExactly ==
    efq.op = "push" =>
        /\ ~efq.ok <=> \/ efq.pre.count = efq.pre.n
                       \/ efq.arg >= efq.pre.u
                       \/ efq.arg < PreviousValue(efq.pre)
        /\ ~efq.ok => efb.v = efq.pre
        /\ efq.ok => efb.v.count = efq.pre.count + 1

C4_Witness ==
    /\ efq.op = "push" /\ efq.ok /\ efq.after_error
    /\ efq.pre.count >= 1 /\ efq.arg = efq.pre.last_value

\* C17: build(), after any sequence of successful and failed pushes, fewer
\* than n or exactly n of them successful, wraps high_bits with a ones count
\* that is the number of set bits of high_bits, and is n: the assertions of
\* with_count hold
C17_BuildCountIsPopcount ==
    (efb.kind = "ef" /\ efq.op = "build") =>
        /\ ~efb.v.high_bits.assert_failed
        /\ efb.v.high_bits.number_of_ones = bm_count_ones(efb.v.high_bits.data)
        /\ efb.v.high_bits.number_of_ones = efb.v.n

\* the same for build() after exactly n successful pushes
C17_BuildAfterAllPushes ==
    (efb.kind = "ef" /\ efq.op = "build" /\ Len(efb.v.pushed) = efb.v.n) =>
        /\ ~efb.v.high_bits.assert_failed
        /\ efb.v.high_bits.number_of_ones = bm_count_ones(efb.v.high_bits.data)
        /\ efb.v.high_bits.number_of_ones = efb.v.n

\* the position of the high bit of the i-th pushed value, i = 0, 1, ...
HighPos(b, i) == ToNat(Shr(ToWord(b.pushed[i + 1]), b.l)) + i

\* C18: after k successful pushes of v_0 .. v_{k-1} the high-bit vector has
\* exactly k set bits, the i-th at (v_i >> l) + i; the positions are strictly
\* increasing and smaller than the length of the vector; after n pushes n
\* bits are set
C18_HighBitPositions ==
    efb.kind = "builder" =>
        LET b == efb.v
            k == Len(b.pushed)
        IN /\ b.count = k /\ k <= b.n
           /\ b.high_bits.ones = {HighPos(b, i) : i \in 0 .. (k - 1)}
           /\ Cardinality(b.high_bits.ones) = k
           /\ \A i \in 0 .. (k - 2) : HighPos(b, i) < HighPos(b, i + 1)
           /\ \A i \in 0 .. (k - 1) : HighPos(b, i) < b.high_bits.len

C18_Witness ==
    /\ efb.kind = "builder"
    /\ efb.v.n = 3 /\ efb.v.l = 1
    /\ efb.v.pushed = <<2, 2, 5>>
    /\ efb.v.high_bits.ones = {1, 2, 4}
    /\ efq.op = "push" /\ efq.after_error

RECURSIVE ILog2(_)
\* floor(log2(x)) for x >= 1
ILog2(x) == IF x <= 1 THEN 0 ELSE 1 + ILog2(x \div 2)

\* floor(log2(u / n)), and 0 if u < n
ExpectedL(n, u) == IF u >= n THEN ILog2(u \div n) ELSE 0

Pow128(k) == {7 * k}

UPPER_BOUND_1 == Pow128(1)

UPPER_BOUND_2 == WAdd(Pow128(2), UPPER_BOUND_1)

UPPER_BOUND_3 == WAdd(Pow128(3), UPPER_BOUND_2)

UPPER_BOUND_4 == WAdd(Pow128(4), UPPER_BOUND_3)

UPPER_BOUND_5 == WAdd(Pow128(5), UPPER_BOUND_4)

UPPER_BOUND_6 == WAdd(Pow128(6), UPPER_BOUND_5)

UPPER_BOUND_7 == WAdd(Pow128(7), UPPER_BOUND_6)

UPPER_BOUND_8 == WAdd(Pow128(8), UPPER_BOUND_7)

\* UPPER_BOUND_k by its index
UPPER_BOUND(k) ==
    <<UPPER_BOUND_1, UPPER_BOUND_2, UPPER_BOUND_3, UPPER_BOUND_4,
      UPPER_BOUND_5, UPPER_BOUND_6, UPPER_BOUND_7, UPPER_BOUND_8>>[k]

\* the marker of a loop that never ends
Diverges == "diverges"

RECURSIVE encode_int_len_loop(_, _, _)
\* encode_int_len: the while loop; max <<= 7 drops the bits shifted out, and
\* once max is 0 the test value >= max stays true
encode_int_len_loop(value, len, max) ==
    IF WLess(value, max) THEN len
    ELSE IF max = {} THEN Diverges
    ELSE encode_int_len_loop(WSub(value, max), len + 1, Shl(max, 7))

encode_int_len(value) == encode_int_len_loop(value, 1, Shl({0}, 7))

\* 0xNN | (b as u8) on bytes
ByteOr(a, b) == ToNat(ToWord(a) \cup ToWord(b))

\* the bytes (value >> shifts[1]) as u8, (value >> shifts[2]) as u8, ...
ShiftedBytes(value, shifts) ==
    [i \in 1 .. Len(shifts) |-> AsU8(Shr(value, shifts[i]))]

\* the prefix byte of width w = 2 .. 8: 0x80, 0xC0, 0xE0, 0xF0, 0xF8, 0xFC, 0xFE
PrefixByte(w) == 256 - Pow2(9 - w)

\* the payload shifts of a width: 8 * (w - 2), ..., 8, 0
PayloadShifts(w) == [i \in 1 .. (w - 1) |-> 8 * (w - 1 - i)]

\* encode_int with the bounds tested by <= instead of <
encode_int_le(value, data) ==
    IF WLess(value, UPPER_BOUND(1)) \/ value = UPPER_BOUND(1)
      THEN Append(data, AsU8(value))
      ELSE LET W == {k \in 2 .. 7 : WLess(value, UPPER_BOUND(k)) \/ value = UPPER_BOUND(k)}
           IN IF W # {}
                THEN LET w == CHOOSE k \in W : \A j \in W : k <= j
                         v == WSub(value, UPPER_BOUND(w - 1))
                     IN data \o <<ByteOr(PrefixByte(w), AsU8(Shr(v, 8 * (w - 1))))>>
                             \o ShiftedBytes(v, PayloadShifts(w))
                ELSE IF WLess(value, UPPER_BOUND(8)) \/ value = UPPER_BOUND(8)
                  THEN data \o <<254>>
                            \o ShiftedBytes(WSub(value, UPPER_BOUND(7)), PayloadShifts(8))
                  ELSE data \o <<255>> \o ShiftedBytes(value, PayloadShifts(9))

\* encode_int: the chain of `if value < UPPER_BOUND_w` tests, first match wins
encode_int(value, data) ==
    IF WLess(value, UPPER_BOUND(1))
      THEN Append(data, AsU8(value))
      ELSE LET W == {k \in 2 .. 7 : WLess(value, UPPER_BOUND(k))}
           IN IF W # {}
                THEN LET w == CHOOSE k \in W : \A j \in W : k <= j
                         v == WSub(value, UPPER_BOUND(w - 1))
                     IN data \o <<ByteOr(PrefixByte(w), AsU8(Shr(v, 8 * (w - 1))))>>
                             \o ShiftedBytes(v, PayloadShifts(w))
                ELSE IF WLess(value, UPPER_BOUND(8))
                  THEN data \o <<254>>
                            \o ShiftedBytes(WSub(value, UPPER_BOUND(7)), PayloadShifts(8))
                  ELSE data \o <<255>> \o ShiftedBytes(value, PayloadShifts(9))

\* (data[at] as usize) << shifts[1] | (data[at + 1] as usize) << shifts[2] | ...
OrShifted(data, at, shifts) ==
    UNION {Shl(ToWord(data[at + i - 1]), shifts[i]) : i \in 1 .. Len(shifts)}

\* decode_int that forgets to add UPPER_BOUND back
decode_int_no_bias(data, pos) ==
    LET x == IF pos <= Len(data) THEN data[pos] ELSE 0
        w == IF x < 128 THEN 1 ELSE IF x < 192 THEN 2 ELSE IF x < 224 THEN 3
             ELSE IF x < 240 THEN 4 ELSE IF x < 248 THEN 5 ELSE IF x < 252 THEN 6
             ELSE IF x < 254 THEN 7 ELSE IF x < 255 THEN 8 ELSE 9
    IN IF pos > Len(data) \/ pos + w - 1 > Len(data) THEN [panicked |-> TRUE]
       ELSE [panicked |-> FALSE, next |-> pos + w,
             val |-> IF w = 1 THEN ToWord(x)
                     ELSE IF w <= 7
                       THEN Shl(ToWord(x) \ ToWord(PrefixByte(w + 1)), 8 * (w - 1))
                                \cup OrShifted(data, pos + 1, PayloadShifts(w))
                     ELSE OrShifted(data, pos + 1, PayloadShifts(w))]

\* decode_int at data[pos..]: the value and the position of the rest; reading
\* past the end of data panics
decode_int(data, pos) ==
    LET x == IF pos <= Len(data) THEN data[pos] ELSE 0
        w == IF x < 128 THEN 1 ELSE IF x < 192 THEN 2 ELSE IF x < 224 THEN 3
             ELSE IF x < 240 THEN 4 ELSE IF x < 248 THEN 5 ELSE IF x < 252 THEN 6
             ELSE IF x < 254 THEN 7 ELSE IF x < 255 THEN 8 ELSE 9
    IN IF pos > Len(data) \/ pos + w - 1 > Len(data) THEN [panicked |-> TRUE]
       ELSE [panicked |-> FALSE, next |-> pos + w,
             val |-> IF w = 1 THEN ToWord(x)
                     ELSE IF w <= 7
                       THEN WAdd(Shl(ToWord(x) \ ToWord(PrefixByte(w + 1)), 8 * (w - 1))
                                    \cup OrShifted(data, pos + 1, PayloadShifts(w)),
                                 UPPER_BOUND(w - 1))
                     ELSE IF w = 8
                       THEN WAdd(OrShifted(data, pos + 1, PayloadShifts(w)),
                                 UPPER_BOUND(7))
                     ELSE OrShifted(data, pos + 1, PayloadShifts(w))]

(***************************************************************************)
(* VByte: the state machine                                                *)
(***************************************************************************)
MaxEnc == 2

\* the values under test: 0, the values around every UPPER_BOUND_w, and the
\* values around 2^56
VByteValues ==
    {{}, WSub({56}, {0}), {56}}
        \cup UNION {{WSub(UPPER_BOUND(k), {0}), UPPER_BOUND(k)} : k \in 1 .. 8}

vbOthers ==
    <<bv, r9, sel, rsq, efb, efq, rcl, rclq, atm, thr, qzi, cbm>>

\* an empty buffer, nothing encoded or decoded
VBInit ==
    /\ vb = [vals |-> <<>>, enc |-> <<>>, buffer |-> <<>>, pos |-> 1, dec |-> <<>>,
             panicked |-> FALSE]
    /\ bv = <<>> /\ r9 = <<>> /\ sel = NoSel /\ rsq = Idle
    /\ efb = <<>> /\ efq = Idle /\ rcl = <<>> /\ rclq = Idle
    /\ atm = <<>> /\ thr = <<>>
    /\ qzi = <<>> /\ cbm = <<>>

\* encode_int(value, &mut buffer); enc keeps the bytes this call has written
VBEncode ==
    /\ Len(vb.vals) < MaxEnc
    /\ vb.dec = <<>>
    /\ \E value \in VByteValues :
          LET buffer1 == encode_int(value, vb.buffer)
          IN vb' = [vb EXCEPT !.vals = Append(@, value),
                              !.buffer = buffer1,
                              !.enc = Append(@, SubSeq(buffer1, Len(vb.buffer) + 1,
                                                       Len(buffer1)))]
    /\ UNCHANGED vbOthers

\* (value, rest) = decode_int(rest)
VBDecode ==
    /\ Len(vb.dec) < Len(vb.vals)
    /\ ~vb.panicked
    /\ LET r == decode_int(vb.buffer, vb.pos)
       IN vb' = IF r.panicked THEN [vb EXCEPT !.panicked = TRUE]
                ELSE [vb EXCEPT !.dec = Append(@, [val |-> r.val,
                                                   used |-> r.next - vb.pos]),
                                !.pos = r.next]
    /\ UNCHANGED vbOthers

VBNext == VBEncode \/ VBDecode

SpecVByte == VBInit /\ [][VBNext]_vars

\* C8: for every v in [0, 2^56), decode_int of the bytes of encode_int(v) gives
\* v and consumes exactly encode_int_len(v) bytes, which is the number of bytes
\* written; a concatenation of encodings decodes back value by value, leaving
\* an empty remainder
C8_VByteRoundTrip ==
    (\A j \in 1 .. Len(vb.vals) : WLess(vb.vals[j], {56})) =>
        /\ ~vb.panicked
        /\ \A j \in 1 .. Len(vb.enc) : Len(vb.enc[j]) = encode_int_len(vb.vals[j])
        /\ \A j \in 1 .. Len(vb.dec) :
              /\ vb.dec[j].val = vb.vals[j]
              /\ vb.dec[j].used = Len(vb.enc[j])
        /\ Len(vb.dec) = Len(vb.vals) => vb.pos = Len(vb.buffer) + 1

C8_Witness ==
    /\ vb.vals = <<WSub({56}, {0}), UPPER_BOUND(1)>>
    /\ Len(vb.dec) = 2
    /\ vb.dec[1].used = 8 /\ vb.dec[2].used = 2
    /\ vb.pos = Len(vb.buffer) + 1

\* 128 + 128^2 + ... + 128^w, as the sum of distinct powers of two
SumOfPowers128(w) == {7 * i : i \in 1 .. w}

\* the number of leading set bits of a byte
LeadingOnes(byte) ==
    CHOOSE n \in 0 .. 8 :
        /\ \A i \in 1 .. n : (8 - i) \in ToWord(byte)
        /\ n = 8 \/ (7 - n) \notin ToWord(byte)

\* C9: encode_int(v) writes w bytes for the smallest w in 1..8 with
\* v < 128 + ... + 128^w, and 9 bytes otherwise; for w <= 8 the first byte
\* has exactly w - 1 leading set bits; 127 is 0x7F, 128 is (0x80, 0x00), and
\* 128 + 128^2 - 1 is the largest value of two bytes
C9_WidthAndPrefix ==
    \A j \in 1 .. Len(vb.enc) :
        LET v == vb.vals[j]
            e == vb.enc[j]
            W == {k \in 1 .. 8 : WLess(v, SumOfPowers128(k))}
        IN /\ Len(e) = IF W = {} THEN 9 ELSE CHOOSE k \in W : \A i \in W : k <= i
           /\ Len(e) <= 8 => LeadingOnes(e[1]) = Len(e) - 1
           /\ v = ToWord(127) => e = <<127>>
           /\ v = ToWord(128) => e = <<128, 0>>
           /\ Len(e) = 2 => ~WLess(ToWord(128 + 128 * 128 - 1), v)
           /\ v = ToWord(128 + 128 * 128 - 1) => Len(e) = 2

C9_Witness ==
    /\ Len(vb.enc) = 2
    /\ vb.vals = <<ToWord(128), WSub(UPPER_BOUND(8), {0})>>
    /\ vb.enc[1] = <<128, 0>>
    /\ Len(vb.enc[2]) = 8 /\ vb.enc[2][1] = 254

(***************************************************************************)
(* RearCodedList: strings are sequences of bytes                           *)
(***************************************************************************)
\* core::cmp::Ord::cmp on integers
Cmp(a, b) == IF a < b THEN "Less" ELSE IF a = b THEN "Equal" ELSE "Greater"

RECURSIVE strcpy(_, _, _)
\* strcpy: copy data[pos..] up to the first 0 onto result; next is the
\* position after the 0; indexing past the end of data panics
strcpy(data, pos, result) ==
    IF pos > Len(data) THEN [panicked |-> TRUE]
    ELSE IF data[pos] = 0 THEN [panicked |-> FALSE, result |-> result, next |-> pos + 1]
    ELSE strcpy(data, pos + 1, Append(result, data[pos]))

RECURSIVE strcmp_from(_, _, _, _)
strcmp_from(string, data, start, i) ==
    IF start + i > Len(data) THEN "panic"
    ELSE IF i = Len(string) THEN Cmp(data[start + i], 0)
    ELSE LET ord == Cmp(data[start + i], string[i + 1])
         IN IF ord = "Equal" THEN strcmp_from(string, data, start, i + 1) ELSE ord

\* strcmp(string, &data[start - 1..]): the order of the 0-terminated data
\* relative to string
strcmp(string, data, start) == strcmp_from(string, data, start, 0)

RECURSIVE strcmp_rust_from(_, _, _)
strcmp_rust_from(string, other, i) ==
    IF i = Len(string) THEN Cmp(Len(other), Len(string))
    ELSE LET o == IF i < Len(other) THEN other[i + 1] ELSE 0
             ord == Cmp(o, string[i + 1])
         IN IF ord = "Equal" THEN strcmp_rust_from(string, other, i + 1) ELSE ord

\* strcmp_rust(string, other): the order of other relative to string
strcmp_rust(string, other) == strcmp_rust_from(string, other, 0)

RECURSIVE lcp_from(_, _, _)
lcp_from(a, b, i) ==
    IF i < Len(a) /\ i < Len(b) /\ a[i + 1] = b[i + 1] THEN lcp_from(a, b, i + 1) ELSE i

\* longest_common_prefix
longest_common_prefix(a, b) == lcp_from(a, b, 0)

\* RearCodedList::new(k); strs is the history of the pushed strings
RearCodedList_new(k) ==
    [data |-> <<>>, pointers |-> <<>>, k |-> k, len |-> 0, last_str |-> <<>>,
     strs |-> <<>>]

\* push that records the pointer of a block after writing its first string
rcl_push_late_pointer(r, string) ==
    LET head == r.len % r.k = 0
        lcp == longest_common_prefix(r.last_str, string)
        rear_length == Len(r.last_str) - lcp
        data1 == IF head THEN r.data ELSE encode_int(ToWord(rear_length), r.data)
        to_encode == IF head THEN string ELSE SubSeq(string, lcp + 1, Len(string))
        data2 == (data1 \o to_encode) \o <<0>>
    IN [r EXCEPT !.pointers = IF head THEN Append(@, Len(data2)) ELSE @,
                 !.data = data2,
                 !.last_str = string,
                 !.len = @ + 1,
                 !.strs = Append(@, string)]

\* RearCodedList::push
rcl_push(r, string) ==
    LET head == r.len % r.k = 0
        lcp == longest_common_prefix(r.last_str, string)
        rear_length == Len(r.last_str) - lcp
        pointers1 == IF head THEN Append(r.pointers, Len(r.data)) ELSE r.pointers
        data1 == IF head THEN r.data ELSE encode_int(ToWord(rear_length), r.data)
        to_encode == IF head THEN string ELSE SubSeq(string, lcp + 1, Len(string))
    IN [r EXCEPT !.pointers = pointers1,
                 !.data = (data1 \o to_encode) \o <<0>>,
                 !.last_str = string,
                 !.len = @ + 1,
                 !.strs = Append(@, string)]

RECURSIVE decode_suffixes(_, _, _, _)
\* the loop of get_inplace: `count` times decode the rear length, drop that
\* many bytes from the end of result and copy the next suffix
decode_suffixes(data, pos, result, count) ==
    IF count = 0 THEN [panicked |-> FALSE, result |-> result, next |-> pos]
    ELSE LET d == decode_int(data, pos)
         IN IF d.panicked \/ WLess(ToWord(Len(result)), d.val) THEN [panicked |-> TRUE]
            ELSE LET c == strcpy(data, d.next,
                                 SubSeq(result, 1, Len(result) - ToNat(d.val)))
                 IN IF c.panicked THEN c
                    ELSE decode_suffixes(data, c.next, c.result, count - 1)

\* get_inplace that does not clear the buffer it is given
get_inplace_no_clear(r, index, buf) ==
    LET block == index \div r.k
        offset == index % r.k
    IN IF block >= Len(r.pointers) THEN [panicked |-> TRUE]
       ELSE LET c == strcpy(r.data, r.pointers[block + 1] + 1, buf)
            IN IF c.panicked THEN c
               ELSE decode_suffixes(r.data, c.next, c.result, offset)

\* RearCodedList::get_inplace(index, result), result holding buf before
get_inplace(r, index, buf) ==
    LET block == index \div r.k
        offset == index % r.k
    IN IF block >= Len(r.pointers) THEN [panicked |-> TRUE]
       ELSE LET c == strcpy(r.data, r.pointers[block + 1] + 1, <<>>)
            IN IF c.panicked THEN c
               ELSE decode_suffixes(r.data, c.next, c.result, offset)

RECURSIVE binary_search_loop(_, _, _, _, _)
\* slice::binary_search_by on `pointers`, comparing with strcmp
binary_search_loop(r, string, left, right, size) ==
    IF ~(left < right) THEN [ok |-> FALSE, idx |-> left, panicked |-> FALSE]
    ELSE LET mid == left + size \div 2
             ord == strcmp(string, r.data, r.pointers[mid + 1] + 1)
         IN IF ord = "panic" THEN [panicked |-> TRUE]
            ELSE IF ord = "Equal" THEN [ok |-> TRUE, idx |-> mid, panicked |-> FALSE]
            ELSE IF ord = "Less"
              THEN binary_search_loop(r, string, mid + 1, right, right - (mid + 1))
              ELSE binary_search_loop(r, string, left, mid, mid - left)

binary_search_by(r, string) ==
    binary_search_loop(r, string, 0, Len(r.pointers), Len(r.pointers))

RECURSIVE contains_scan(_, _, _, _, _)
\* the linear search of contains over the in_block strings after the head
contains_scan(data, pos, result, string, in_block) ==
    IF in_block = 0 THEN "false"
    ELSE LET d == decode_int(data, pos)
         IN IF d.panicked \/ WLess(ToWord(Len(result)), d.val) THEN "panic"
            ELSE LET c == strcpy(data, d.next,
                                 SubSeq(result, 1, Len(result) - ToNat(d.val)))
                 IN IF c.panicked THEN "panic"
                    ELSE LET ord == strcmp_rust(string, c.result)
                         IN IF ord = "Equal" THEN "true"
                            ELSE IF ord = "Greater" THEN "false"
                            ELSE contains_scan(data, c.next, c.result, string,
                                               in_block - 1)

\* contains that gives up when the search lands in the first block
contains_skip_first_block(r, string) ==
    LET b == binary_search_by(r, string)
    IN IF b.panicked THEN [res |-> "panic", search |-> b]
       ELSE IF b.ok THEN [res |-> "true", search |-> b]
       ELSE IF b.idx <= 1 \/ b.idx > Len(r.pointers) THEN [res |-> "false", search |-> b]
       ELSE LET block_idx == b.idx - 1
                c == strcpy(r.data, r.pointers[block_idx + 1] + 1, <<>>)
                m == r.len - block_idx * r.k - 1
                in_block == IF r.k - 1 < m THEN r.k - 1 ELSE m
            IN [res |-> IF c.panicked THEN "panic"
                        ELSE contains_scan(r.data, c.next, c.result, string, in_block),
                search |-> b]

\* RearCodedList::contains; search is the result of the binary search
contains(r, string) ==
    LET b == binary_search_by(r, string)
    IN IF b.panicked THEN [res |-> "panic", search |-> b]
       ELSE IF b.ok THEN [res |-> "true", search |-> b]
       ELSE IF b.idx = 0 \/ b.idx > Len(r.pointers) THEN [res |-> "false", search |-> b]
       ELSE LET block_idx == b.idx - 1
                c == strcpy(r.data, r.pointers[block_idx + 1] + 1, <<>>)
                m == r.len - block_idx * r.k - 1
                in_block == IF r.k - 1 < m THEN r.k - 1 ELSE m
            IN [res |-> IF c.panicked THEN "panic"
                        ELSE contains_scan(r.data, c.next, c.result, string, in_block),
                search |-> b]

(***************************************************************************)
(* RCAIter: the sequential iterator of the rear-coded list                 *)
(***************************************************************************)
\* the iterator after a panic of next()
IterPanic(it) == [it EXCEPT !.panicked = TRUE]

\* next() that keeps the buffer when it copies a block head
iter_next_no_clear(r, it) ==
    IF it.index >= r.len THEN [it |-> it, res |-> None]
    ELSE LET head == it.index % r.k = 0
             d == IF head THEN [panicked |-> FALSE, val |-> {}, next |-> it.pos]
                  ELSE decode_int(r.data, it.pos)
         IN IF d.panicked \/ WLess(ToWord(Len(it.buffer)), d.val)
              THEN [it |-> IterPanic(it), res |-> None]
              ELSE LET c == strcpy(r.data, d.next,
                                   SubSeq(it.buffer, 1,
                                          Len(it.buffer) - ToNat(d.val)))
                   IN IF c.panicked THEN [it |-> IterPanic(it), res |-> None]
                      ELSE [it |-> [it EXCEPT !.index = @ + 1, !.pos = c.next,
                                              !.buffer = c.result],
                            res |-> Some(c.result)]

\* Iterator for RCAIter::next; pos is the position of the rest of data.  The
\* subtraction buffer.len() - len overflows, and the read past the end of
\* data is out of bounds, as a panic
iter_next(r, it) ==
    IF it.index >= r.len THEN [it |-> it, res |-> None]
    ELSE IF it.index % r.k = 0
      THEN LET c == strcpy(r.data, it.pos, <<>>)
           IN IF c.panicked THEN [it |-> IterPanic(it), res |-> None]
              ELSE [it |-> [it EXCEPT !.index = @ + 1, !.pos = c.next,
                                      !.buffer = c.result],
                    res |-> Some(c.result)]
      ELSE LET d == decode_int(r.data, it.pos)
           IN IF d.panicked \/ WLess(ToWord(Len(it.buffer)), d.val)
                THEN [it |-> IterPanic(it), res |-> None]
                ELSE LET c == strcpy(r.data, d.next,
                                     SubSeq(it.buffer, 1,
                                            Len(it.buffer) - ToNat(d.val)))
                     IN IF c.panicked THEN [it |-> IterPanic(it), res |-> None]
                        ELSE [it |-> [it EXCEPT !.index = @ + 1,
                                                !.pos = c.next,
                                                !.buffer = c.result],
                              res |-> Some(c.result)]

\* RearCodedList::iter
rcl_iter(r) == [index |-> 0, pos |-> 1, buffer |-> <<>>, panicked |-> FALSE]

RECURSIVE iter_skip(_, _, _)
\* for _ in 0..offset { res.next(); }
iter_skip(r, it, offset) ==
    IF offset = 0 \/ it.panicked THEN it
    ELSE iter_skip(r, iter_next(r, it).it, offset - 1)

\* RearCodedList::iter_from
rcl_iter_from(r, index) ==
    LET block == index \div r.k
        offset == index % r.k
    IN IF block >= Len(r.pointers)
         THEN [index |-> index, pos |-> 1, buffer |-> <<>>, panicked |-> TRUE]
         ELSE iter_skip(r, [index |-> index, pos |-> r.pointers[block + 1] + 1,
                            buffer |-> <<>>, panicked |-> FALSE], offset)

\* ExactSizeIterator for RCAIter::len
iter_len(r, it) == r.len - it.index

(***************************************************************************)
(* RearCodedList: the state machine                                        *)
(***************************************************************************)
MaxList == 4

MaxK == 3

\* the strings pushed: "", "a", "aa", "ab", "abb", "b" (NUL-free)
StoredStrings == {<<>>, <<97>>, <<97, 97>>, <<97, 98>>, <<97, 98, 98>>, <<98>>}

\* the strings asked for: the stored ones, "aab", "abc", "bb", and strings
\* with a NUL: "\0", "a\0", "a\0b", "a\0\0b"
QueryStrings ==
    StoredStrings \cup {<<97, 97, 98>>, <<97, 98, 99>>, <<98, 98>>,
                        <<0>>, <<97, 0>>, <<97, 0, 98>>, <<97, 0, 0, 98>>}

\* what the buffer handed to get_inplace may hold
Buffers == {<<>>, <<98, 98>>}

\* the order of str: bytewise lexicographic
StrLeq(a, b) ==
    LET i == longest_common_prefix(a, b)
    IN IF i = Len(a) THEN TRUE
       ELSE IF i = Len(b) THEN FALSE
       ELSE a[i + 1] < b[i + 1]

rclOthers ==
    <<bv, r9, sel, rsq, efb, efq, vb, atm, thr, qzi, cbm>>

\* RearCodedList::new(k) for every block size k in 1..MaxK
RCLInit ==
    /\ rcl \in {RearCodedList_new(k) : k \in 1 .. MaxK}
    /\ rclq = Idle
    /\ bv = <<>> /\ r9 = <<>> /\ sel = NoSel /\ rsq = Idle
    /\ efb = <<>> /\ efq = Idle /\ vb = <<>>
    /\ qzi = <<>> /\ cbm = <<>> /\ atm = <<>> /\ thr = <<>>

\* push(string), the strings coming in sorted order
RCLPush ==
    /\ rclq = Idle
    /\ rcl.len < MaxList
    /\ \E string \in StoredStrings :
          /\ StrLeq(rcl.last_str, string)
          /\ rcl' = rcl_push(rcl, string)
    /\ UNCHANGED rclq
    /\ UNCHANGED rclOthers

\* get_inplace(index, &mut buf) for index < len
RCLGet ==
    /\ rclq = Idle
    /\ \E index \in 0 .. (rcl.len - 1), buf \in Buffers :
          rclq' = [op |-> "get", arg |-> index, buf |-> buf,
                   res |-> get_inplace(rcl, index, buf)]
    /\ UNCHANGED rcl
    /\ UNCHANGED rclOthers

\* contains(string)
RCLContains ==
    /\ rclq = Idle
    /\ \E string \in QueryStrings :
          LET c == contains(rcl, string)
          IN rclq' = [op |-> "contains", arg |-> string, res |-> c.res,
                      search |-> c.search]
    /\ UNCHANGED rcl
    /\ UNCHANGED rclOthers

\* the next() calls made after the iterator is exhausted
MaxExtraNext == 2

\* iter()
RCLIter ==
    /\ rclq = Idle
    /\ rclq' = [op |-> "iter", from |-> 0, via |-> "iter",
                it |-> rcl_iter(rcl), yielded |-> <<>>]
    /\ UNCHANGED rcl
    /\ UNCHANGED rclOthers

\* iter_from(index) for index < len
RCLIterFrom ==
    /\ rclq = Idle
    /\ \E index \in 0 .. (rcl.len - 1) :
          rclq' = [op |-> "iter", from |-> index, via |-> "iter_from",
                   it |-> rcl_iter_from(rcl, index), yielded |-> <<>>]
    /\ UNCHANGED rcl
    /\ UNCHANGED rclOthers

\* next() on the iterator; yielded is the history of what it returned
RCLIterNext ==
    /\ rclq.op = "iter"
    /\ ~rclq.it.panicked
    /\ Len(rclq.yielded) < (rcl.len - rclq.from) + MaxExtraNext
    /\ LET n == iter_next(rcl, rclq.it)
       IN rclq' = [rclq EXCEPT !.it = n.it, !.yielded = Append(@, n.res)]
    /\ UNCHANGED rcl
    /\ UNCHANGED rclOthers

RCLNext ==
    \/ RCLPush \/ RCLGet \/ RCLContains
    \/ RCLIter \/ RCLIterFrom \/ RCLIterNext

SpecRCL == RCLInit /\ [][RCLNext]_vars

\* s is one of the strings pushed
Member(s) == \E i \in 1 .. Len(rcl.strs) : rcl.strs[i] = s

\* C5: get(i) and get_inplace(i, buf), whatever buf held, return the i-th
\* pushed string, for block heads and for front-coded entries
C5_GetReturnsPushed ==
    rclq.op = "get" =>
        /\ ~rclq.res.panicked
        /\ rclq.res.result = rcl.strs[rclq.arg + 1]

C5_Witness ==
    /\ rclq.op = "get" /\ rcl.k = 3 /\ rclq.arg = 2 /\ rclq.buf # <<>>
    /\ rcl.strs[2] = <<97, 98, 98>>
    /\ ~rclq.res.panicked /\ rclq.res.result = <<98>>

\* C6: for every query string s, contains(s) is true if and only if s is one
\* of the strings of the list
C6_ContainsIffMember ==
    rclq.op = "contains" =>
        rclq.res = IF Member(rclq.arg) THEN "true" ELSE "false"

\* s is stored in the first block at an index 1 .. k-1 and is not its head
InFirstBlockNotHead(s) ==
    /\ s # rcl.strs[1]
    /\ \E i \in 2 .. Len(rcl.strs) : i <= rcl.k /\ rcl.strs[i] = s

\* C7 as stated: contains(s) is false for every s stored in the first block
\* that is not the first block's head
C7_FirstBlockNonHeadNotFound ==
    (rclq.op = "contains" /\ rcl.k > 1 /\ rcl.len > 0
        /\ InFirstBlockNotHead(rclq.arg)) => rclq.res = "false"

\* C7 amended: contains(s) is true for every s stored in the first block, head
\* or not: such an s is not smaller than the first head, so the binary search
\* never ends at insertion point 0 and the first block is scanned
C7_FirstBlockFound ==
    (rclq.op = "contains" /\ rcl.len > 0
        /\ \E i \in 1 .. Len(rcl.strs) : i <= rcl.k /\ rcl.strs[i] = rclq.arg) =>
        /\ rclq.res = "true"
        /\ ~rclq.search.panicked
        /\ rclq.search.ok \/ rclq.search.idx >= 1

C7_Witness ==
    /\ rclq.op = "contains" /\ rcl.k = 3 /\ rcl.len = 4
    /\ InFirstBlockNotHead(rclq.arg) /\ rclq.arg = rcl.strs[3]
    /\ ~rclq.search.ok /\ rclq.search.idx = 1
    /\ rclq.res = "true"

(***************************************************************************)
(* Atomic bitmaps: BitMap<Vec<AtomicU64>> and CountingBitmap over it.      *)
(* Each atomic load, compare-exchange and fetch_add is one step.           *)
(***************************************************************************)
NThreads == 2

Threads == 1 .. NThreads

\* the length of the bitmap and the indices set: two in the first word, one
\* in the second
AtomLen == {100}

AtomIndices == {0, 1, 64}

\* new_word = (word & !(1 << bit_index)) | (value << bit_index)
NewWord(word, bit_index, value) ==
    (word \cap Not(Shl({0}, bit_index))) \cup Shl(ToWord(value), bit_index)

\* set_atomic_unchecked that stores new_word without comparing
cas_step_blind_store(t, data) ==
    LET new_word == NewWord(t.word, t.bit_index, t.value)
    IN [ok |-> TRUE, data |-> SetWord(data, t.word_index, new_word),
        t |-> [t EXCEPT !.new_word = new_word]]

\* a turn of the loop whose Err(w) arm leaves word as it was
cas_step_keep_word(t, data) ==
    LET new_word == NewWord(t.word, t.bit_index, t.value)
        current == WordAt(data, t.word_index)
    IN IF current = t.word
         THEN [ok |-> TRUE, data |-> SetWord(data, t.word_index, new_word),
               t |-> [t EXCEPT !.new_word = new_word]]
         ELSE [ok |-> FALSE, data |-> data,
               t |-> [t EXCEPT !.new_word = new_word]]

\* one turn of the loop of set_atomic_unchecked: compute new_word from the
\* word last seen and compare-exchange it; Err(w) => word = w
cas_step(t, data) ==
    LET new_word == NewWord(t.word, t.bit_index, t.value)
        current == WordAt(data, t.word_index)
    IN IF current = t.word
         THEN [ok |-> TRUE, data |-> SetWord(data, t.word_index, new_word),
               t |-> [t EXCEPT !.new_word = new_word]]
         ELSE [ok |-> FALSE, data |-> data,
               t |-> [t EXCEPT !.new_word = new_word, !.word = current]]

\* an inc that never goes below zero
IncAsUsize_no_dec(word, new_word) ==
    IF WLess(word, new_word) THEN {0} ELSE {}

\* inc as usize: (new_word > word) as isize - (new_word < word) as isize
IncAsUsize(word, new_word) ==
    WSub(IF WLess(word, new_word) THEN {0} ELSE {},
         IF WLess(new_word, word) THEN {0} ELSE {})

atOthers ==
    <<bv, r9, sel, rsq, efb, efq, rcl, rclq, vb, qzi, cbm>>

\* a call set(index, value), not yet started.  retried and retries record
\* the failed compare-exchanges of the call; changes counts the compare-
\* exchanges of other calls that changed its word since its load, unseen those
\* since it last read the word, and spurious records a compare-exchange that
\* failed with unseen = 0
SetCall(i, v) ==
    [op |-> "set", pc |-> "load", index |-> i, value |-> v,
     word_index |-> i \div WORD_BITS, bit_index |-> i % WORD_BITS,
     word |-> {}, new_word |-> {},
     retried |-> FALSE, retries |-> 0, changes |-> 0, unseen |-> 0,
     spurious |-> FALSE]

\* thread u after a compare-exchange of thread t that changed word w_index
Observe(u, w_index) ==
    IF u.op = "set" /\ u.pc = "cas" /\ u.word_index = w_index
       THEN [u EXCEPT !.changes = @ + 1, !.unseen = @ + 1]
       ELSE u

\* an all-zero bitmap, plain or counting, and one set(index, value) call per
\* thread
AtomInit ==
    /\ atm \in {[data |-> [ones |-> {}, len |-> n], counting |-> c,
                 number_of_ones |-> {}, counted |-> Undefined] :
                   n \in AtomLen, c \in BOOLEAN}
    /\ thr \in [Threads -> {SetCall(i, v) : i \in AtomIndices, v \in {0, 1}}]
    /\ bv = <<>> /\ r9 = <<>> /\ sel = NoSel /\ rsq = Idle
    /\ efb = <<>> /\ efq = Idle /\ rcl = <<>> /\ rclq = Idle /\ vb = <<>>
    /\ qzi = <<>> /\ cbm = <<>>

\* let mut word = self.data.get_atomic_unchecked(word_index, order)
AtomLoad(t) ==
    /\ thr[t].pc = "load"
    /\ thr' = [thr EXCEPT ![t].word = WordAt(atm.data, thr[t].word_index),
                          ![t].pc = "cas"]
    /\ UNCHANGED atm
    /\ UNCHANGED atOthers

\* compare_exchange_unchecked(word_index, word, new_word): Ok => break
AtomCas(t) ==
    /\ thr[t].pc = "cas"
    /\ LET r == cas_step(thr[t], atm.data)
           changed == r.data # atm.data
           me == [r.t EXCEPT !.pc = IF ~r.ok THEN "cas"
                                    ELSE IF atm.counting THEN "inc"
                                    ELSE "done",
                             !.retried = @ \/ ~r.ok,
                             !.retries = IF r.ok THEN @ ELSE @ + 1,
                             !.spurious = @ \/ (~r.ok /\ thr[t].unseen = 0),
                             !.unseen = IF r.ok THEN @ ELSE 0]
       IN /\ atm' = [atm EXCEPT !.data = r.data]
          /\ thr' = [u \in DOMAIN thr |->
                        IF u = t THEN me
                        ELSE IF changed THEN Observe(thr[u], thr[t].word_index)
                        ELSE thr[u]]
    /\ UNCHANGED atOthers

\* self.number_of_ones.fetch_add(inc as usize, Ordering::Relaxed)
AtomInc(t) ==
    /\ thr[t].pc = "inc"
    /\ atm' = [atm EXCEPT !.number_of_ones =
                  WAdd(@, IncAsUsize(thr[t].word, thr[t].new_word))]
    /\ thr' = [thr EXCEPT ![t].pc = "done"]
    /\ UNCHANGED atOthers

AllDone == \A t \in Threads : thr[t].pc = "done"

\* count_ones() once every call has returned
AtomCountOnes ==
    /\ AllDone
    /\ atm.counted = Undefined
    /\ atm' = [atm EXCEPT !.counted = bm_count_ones(atm.data)]
    /\ UNCHANGED thr
    /\ UNCHANGED atOthers

AtomNext ==
    \/ \E t \in Threads : AtomLoad(t)
    \/ \E t \in Threads : AtomCas(t)
    \/ \E t \in Threads : AtomInc(t)
    \/ AtomCountOnes

SpecAtomic == AtomInit /\ [][AtomNext]_vars

\* the scheduler is fair: a thread that can take a step eventually takes one
SpecAtomicFair ==
    /\ AtomInit
    /\ [][AtomNext]_vars
    /\ \A t \in Threads : WF_vars(AtomLoad(t) \/ AtomCas(t) \/ AtomInc(t))

\* the calls all set a one, on pairwise distinct indices
DistinctSets ==
    /\ \A t \in Threads : thr[t].value = 1
    /\ \A t, u \in Threads : t # u => thr[t].index # thr[u].index

\* C10: concurrent set(i, 1) calls on distinct indices of an all-zero atomic
\* bitmap lose no update: once all have returned every targeted bit is 1,
\* every other bit is 0, and count_ones() is the number of indices
C10_NoLostUpdate ==
    (DistinctSets /\ AllDone) =>
        /\ atm.data.ones = {thr[t].index : t \in Threads}
        /\ atm.counted # Undefined => atm.counted = NThreads
        /\ atm.counting => ToNat(atm.number_of_ones) = NThreads

C10_Witness ==
    /\ DistinctSets /\ AllDone
    /\ atm.counted = NThreads
    /\ \E t, u \in Threads :
          /\ t # u
          /\ thr[t].word_index = thr[u].word_index
          /\ thr[t].retried

\* no call is in progress: each call has returned or has not started
Quiescent == \A t \in Threads : thr[t].pc \in {"load", "done"}

\* the signed change a successful compare-exchange made to its bit, as usize
BitDelta(t) ==
    IF t.bit_index \in t.new_word /\ t.bit_index \notin t.word THEN {0}
    ELSE IF t.bit_index \notin t.new_word /\ t.bit_index \in t.word THEN BitPos
    ELSE {}

\* C11: for an atomic CountingBitmap under concurrent sets and clears, whenever
\* no call is in progress number_of_ones is the popcount of the words, and the
\* inc a call adds after its successful compare-exchange is the signed change
\* of its bit, -1 being 2^64 - 1
C11_CounterConsistent ==
    atm.counting =>
        /\ Quiescent => atm.number_of_ones = ToWord(bm_count_ones(atm.data))
        /\ \A t \in Threads : thr[t].pc \in {"inc", "done"} =>
              IncAsUsize(thr[t].word, thr[t].new_word) = BitDelta(thr[t])

\* a one was set and then cleared by another call on the same index, the
\* counter having been 2^64 - 1 or 1 in between, and is back to 0
C11_Witness ==
    /\ atm.counting /\ AllDone
    /\ atm.number_of_ones = {}
    /\ \E t, u \in Threads :
          /\ thr[t].index = thr[u].index
          /\ BitDelta(thr[t]) = {0}
          /\ BitDelta(thr[u]) = BitPos

\* a call is in progress and the counter differs from the popcount
C11_TransientDisagreement ==
    /\ atm.counting /\ ~Quiescent
    /\ atm.number_of_ones # ToWord(bm_count_ones(atm.data))

(***************************************************************************)
(* EliasFanoAtomicBuilder: n concurrent set(index, value, order) calls     *)
(***************************************************************************)
\* the mask of the bits an element of width w at bit offset bit has in the
\* word it starts in
LowMask(bit, w) == Shl(WSub(Shl({0}, w), {0}), bit)

\* the mask of the bits it has in the next word
LowMask2(bit, w) == WSub(Shl({0}, bit + w - WORD_BITS), {0})

\* EliasFanoAtomicBuilder::new; vals is the history of the values to set
EliasFanoAtomicBuilder_new(n, u, vals) ==
    LET l == IF u >= n THEN FloorLog2Ratio(u, n) ELSE 0
    IN [u |-> u, n |-> n, l |-> l,
        low_bits |-> [ones |-> {}, len |-> n * l],
        high_bits |-> [ones |-> {}, len |-> n + ToNat(Shr(ToWord(u), l)) + 1],
        vals |-> vals]

\* let low = value & ((1 << self.l) - 1)
EFLow(b, value) == ToWord(value) \cap WSub(Shl({0}, b.l), {0})

\* let high = (value >> self.l) + index, with the call's own index dropped
EFHigh_no_index(b, value, index) == ToNat(Shr(ToWord(value), b.l))

\* let high = (value >> self.l) + index
EFHigh(b, value, index) == ToNat(Shr(ToWord(value), b.l)) + index

\* the elements of a packed array of n values of w bits
Unpack(packed, w, n) ==
    [bit_width |-> w,
     vals |-> [i \in 1 .. n |->
                 ToNat({p - (i - 1) * w :
                          p \in {q \in packed.ones :
                                   (i - 1) * w <= q /\ q < i * w}})]]

\* EliasFanoAtomicBuilder::build
build_atomic(b) ==
    [u |-> b.u, n |-> b.n, l |-> b.l,
     low_bits |-> Unpack(b.low_bits, b.l, b.n),
     high_bits |-> with_count(b.high_bits, b.n), pushed |-> b.vals]

\* the sequential builder after push_unchecked of vals[i..]
RECURSIVE PushAll(_, _, _)
PushAll(b, vals, i) ==
    IF i > Len(vals) THEN b
    ELSE PushAll(push_unchecked(b, vals[i]), vals, i + 1)

\* (n, u) with l = 1, l = 0, and l = 22, where the third element of the
\* low-bits array lies across two words
AtomicEFParams ==
    {[n |-> 2, u |-> 5, values |-> 0 .. 4],
     [n |-> 2, u |-> 2, values |-> 0 .. 1],
     [n |-> 3, u |-> 6, values |-> {0, 1, 3, 5}],
     [n |-> 3, u |-> 12582912,
      values |-> {0, 4194305, 8388611, 12582911}]}

\* one thread for each call
AEThreads == {1, 2, 3}

\* the monotone sequences of p.n values out of p.values, all smaller than p.u
MonotoneSeqs(p) ==
    {s \in [1 .. p.n -> p.values] :
        \A i \in 1 .. (p.n - 1) : s[i] <= s[i + 1]}

aeOthers ==
    <<bv, r9, sel, rsq, rcl, rclq, vb, atm, qzi, cbm>>

\* a new atomic builder and one set(i, v_i) call per index, not yet started;
\* a thread beyond n is idle
AEInit ==
    /\ \E p \in AtomicEFParams : \E s \in MonotoneSeqs(p) :
          /\ efb = [kind |-> "atomic",
                    v |-> EliasFanoAtomicBuilder_new(p.n, p.u, s)]
          /\ thr = [t \in AEThreads |->
                      [pc |-> IF t <= p.n THEN "low_load" ELSE "idle",
                       index |-> t - 1, v |-> IF t <= p.n THEN s[t] ELSE 0,
                       value |-> 1, word_index |-> 0, bit_index |-> 0,
                       word |-> {}, new_word |-> {}, retried |-> FALSE]]
    /\ efq = Idle
    /\ bv = <<>> /\ r9 = <<>> /\ sel = NoSel /\ rsq = Idle
    /\ rcl = <<>> /\ rclq = Idle /\ vb = <<>>
    /\ qzi = <<>> /\ cbm = <<>> /\ atm = <<>>

\* low_bits.set_unchecked(index, low, order), the load of the first word;
\* an array of width 0 stores nothing
AELowLoad(t) ==
    /\ efb.kind = "atomic"
    /\ thr[t].pc = "low_load"
    /\ LET pos == thr[t].index * efb.v.l
       IN thr' = [thr EXCEPT ![t] =
                    IF efb.v.l = 0 THEN [@ EXCEPT !.pc = "high_load"]
                    ELSE [@ EXCEPT !.pc = "low_cas",
                                   !.word_index = pos \div WORD_BITS,
                                   !.bit_index = pos % WORD_BITS,
                                   !.word = WordAt(efb.v.low_bits,
                                                   pos \div WORD_BITS)]]
    /\ UNCHANGED <<efb, efq>>
    /\ UNCHANGED aeOthers

\* the compare-exchange of the first word: clear the element's bits, then OR
AELowCas(t) ==
    /\ efb.kind = "atomic"
    /\ thr[t].pc = "low_cas"
    /\ LET T == thr[t]
           new_word == (T.word \cap Not(LowMask(T.bit_index, efb.v.l)))
                          \cup Shl(EFLow(efb.v, T.v), T.bit_index)
           current == WordAt(efb.v.low_bits, T.word_index)
       IN IF current = T.word
            THEN /\ efb' = [efb EXCEPT !.v.low_bits =
                               SetWord(@, T.word_index, new_word)]
                 /\ thr' = [thr EXCEPT ![t].pc =
                               IF T.bit_index + efb.v.l > WORD_BITS
                                  THEN "low_load2" ELSE "high_load"]
            ELSE /\ thr' = [thr EXCEPT ![t].word = current,
                                       ![t].retried = TRUE]
                 /\ UNCHANGED efb
    /\ UNCHANGED efq
    /\ UNCHANGED aeOthers

\* the load of the next word, for an element lying across two words
AELowLoad2(t) ==
    /\ efb.kind = "atomic"
    /\ thr[t].pc = "low_load2"
    /\ thr' = [thr EXCEPT ![t].pc = "low_cas2",
                          ![t].word = WordAt(efb.v.low_bits,
                                             thr[t].word_index + 1)]
    /\ UNCHANGED <<efb, efq>>
    /\ UNCHANGED aeOthers

\* the compare-exchange of the next word
AELowCas2(t) ==
    /\ efb.kind = "atomic"
    /\ thr[t].pc = "low_cas2"
    /\ LET T == thr[t]
           new_word == (T.word \cap Not(LowMask2(T.bit_index, efb.v.l)))
                          \cup Shr(EFLow(efb.v, T.v), WORD_BITS - T.bit_index)
           current == WordAt(efb.v.low_bits, T.word_index + 1)
       IN IF current = T.word
            THEN /\ efb' = [efb EXCEPT !.v.low_bits =
                               SetWord(@, T.word_index + 1, new_word)]
                 /\ thr' = [thr EXCEPT ![t].pc = "high_load"]
            ELSE /\ thr' = [thr EXCEPT ![t].word = current,
                                       ![t].retried = TRUE]
                 /\ UNCHANGED efb
    /\ UNCHANGED efq
    /\ UNCHANGED aeOthers

\* high_bits.set(high, true, order), the load of the word
AEHighLoad(t) ==
    /\ efb.kind = "atomic"
    /\ thr[t].pc = "high_load"
    /\ LET high == EFHigh(efb.v, thr[t].v, thr[t].index)
       IN thr' = [thr EXCEPT ![t].pc = "high_cas",
                             ![t].word_index = high \div WORD_BITS,
                             ![t].bit_index = high % WORD_BITS,
                             ![t].word = WordAt(efb.v.high_bits,
                                                high \div WORD_BITS)]
    /\ UNCHANGED <<efb, efq>>
    /\ UNCHANGED aeOthers

\* the compare-exchange loop of the atomic bit set
AEHighCas(t) ==
    /\ efb.kind = "atomic"
    /\ thr[t].pc = "high_cas"
    /\ LET r == cas_step(thr[t], efb.v.high_bits)
       IN /\ efb' = [efb EXCEPT !.v.high_bits = r.data]
          /\ thr' = [thr EXCEPT ![t] =
                        [r.t EXCEPT !.pc = IF r.ok THEN "done" ELSE "high_cas",
                                    !.retried = @ \/ ~r.ok]]
    /\ UNCHANGED efq
    /\ UNCHANGED aeOthers

\* build(), once the n calls have returned
AEBuild ==
    /\ efb.kind = "atomic"
    /\ \A t \in AEThreads : thr[t].pc \in {"done", "idle"}
    /\ efb' = [kind |-> "ef", v |-> build_atomic(efb.v)]
    /\ efq' = [op |-> "build"]
    /\ UNCHANGED thr
    /\ UNCHANGED aeOthers

AENext ==
    \/ \E t \in AEThreads : AELowLoad(t)
    \/ \E t \in AEThreads : AELowCas(t)
    \/ \E t \in AEThreads : AELowLoad2(t)
    \/ \E t \in AEThreads : AELowCas2(t)
    \/ \E t \in AEThreads : AEHighLoad(t)
    \/ \E t \in AEThreads : AEHighCas(t)
    \/ AEBuild

SpecEFAtomic == AEInit /\ [][AENext]_vars

\* what the sequential builder makes of the same values
SequentialEF(ef) ==
    build(PushAll(EliasFanoBuilder_new(ef.n, ef.u), ef.pushed, 1))

\* C12: n concurrent EliasFanoAtomicBuilder::set(i, v_i) calls, one per index,
\* for a monotone v_0 <= ... <= v_{n-1} < u, followed by build(), give the low
\* bits and the high bits the sequential builder gives for v_0 .. v_{n-1}, and
\* get(i) = v_i for every i
C12_AtomicBuilderAsSequential ==
    efb.kind = "ef" =>
        /\ efb.v.low_bits = SequentialEF(efb.v).low_bits
        /\ efb.v.high_bits = SequentialEF(efb.v).high_bits
        /\ \A i \in 0 .. (efb.v.n - 1) :
              ef_get_unchecked(efb.v, i) = efb.v.pushed[i + 1]

\* built from an element lying across two words of the low bits, after a
\* failed compare-exchange
C12_Witness ==
    /\ efb.kind = "ef"
    /\ efb.v.l = 22
    /\ efb.v.pushed = <<4194305, 8388611, 12582911>>
    /\ ef_get_unchecked(efb.v, 2) = 12582911
    /\ \E t \in AEThreads : thr[t].retried

\* what a sequential iterator started at index `from` returns on its j-th
\* next(), j = 1, 2, ...
Expected(from, j) ==
    IF from + j <= rcl.len THEN Some(rcl.strs[from + j]) ELSE None

\* C15: iter() yields len() strings, the j-th being L[j], then None on every
\* further next(); after j calls the remaining length is len() - j
C15_IterYieldsList ==
    (rclq.op = "iter" /\ rclq.via = "iter") =>
        /\ ~rclq.it.panicked
        /\ \A j \in 1 .. Len(rclq.yielded) : rclq.yielded[j] = Expected(0, j)
        /\ Len(rclq.yielded) <= rcl.len =>
              iter_len(rcl, rclq.it) = rcl.len - Len(rclq.yielded)
        /\ Len(rclq.yielded) >= rcl.len => iter_len(rcl, rclq.it) = 0

C15_Witness ==
    /\ rclq.op = "iter" /\ rclq.via = "iter"
    /\ rcl.k = 2 /\ rcl.len = 4
    /\ Len(rclq.yielded) = 6
    /\ rclq.yielded[4] = Some(<<97, 98, 98>>)
    /\ rclq.yielded[6] = None

\* C16: iter_from(i), for every i < len, multiple of k or not, yields L[i],
\* L[i+1], ..., L[len-1] in this order and then None
C16_IterFromYieldsSuffix ==
    (rclq.op = "iter" /\ rclq.via = "iter_from") =>
        /\ ~rclq.it.panicked
        /\ \A j \in 1 .. Len(rclq.yielded) :
              rclq.yielded[j] = Expected(rclq.from, j)

\* the same for the indices that are multiples of k
C16_IterFromBlockStart ==
    (rclq.op = "iter" /\ rclq.via = "iter_from" /\ rclq.from % rcl.k = 0) =>
        /\ ~rclq.it.panicked
        /\ \A j \in 1 .. Len(rclq.yielded) :
              rclq.yielded[j] = Expected(rclq.from, j)

\* the bytes written for string number i (from 0) of strs with block size k:
\* the whole string at the head of a block, else the VByte code of
\* |prev| - lcp(prev, cur) and the bytes of cur after the common prefix; a NUL
\* ends both
StoredEntry(strs, k, i) ==
    IF i % k = 0 THEN Append(strs[i + 1], 0)
    ELSE LET prev == strs[i]
             cur == strs[i + 1]
             lcp == longest_common_prefix(prev, cur)
         IN Append(encode_int(ToWord(Len(prev) - lcp), <<>>)
                      \o SubSeq(cur, lcp + 1, Len(cur)), 0)

RECURSIVE StoredPrefix(_, _, _)
\* the bytes of the first n strings
StoredPrefix(strs, k, n) ==
    IF n = 0 THEN <<>>
    ELSE StoredPrefix(strs, k, n - 1) \o StoredEntry(strs, k, n - 1)

\* C27: after m pushes on a RearCodedList of block size k, len() = m, the
\* pointers are ceil(m / k), pointers[0] = 0 and they increase strictly, and
\* pointers[b] is the offset in data of the whole NUL-terminated copy of
\* string b * k, every other string being stored as VByte(|prev| - lcp)
\* followed by its bytes after the common prefix and a NUL
C27_PointersAndLayout ==
    rcl # <<>> =>
        LET m == Len(rcl.strs)
        IN /\ rcl.len = m
           /\ Len(rcl.pointers) = div_ceil(m, rcl.k)
           /\ m >= 1 => rcl.pointers[1] = 0
           /\ \A b \in 1 .. (Len(rcl.pointers) - 1) :
                 rcl.pointers[b] < rcl.pointers[b + 1]
           /\ rcl.data = StoredPrefix(rcl.strs, rcl.k, m)
           /\ \A b \in 0 .. (Len(rcl.pointers) - 1) :
                 /\ rcl.pointers[b + 1] = Len(StoredPrefix(rcl.strs, rcl.k, b * rcl.k))
                 /\ SubSeq(rcl.data, rcl.pointers[b + 1] + 1,
                           rcl.pointers[b + 1] + Len(rcl.strs[b * rcl.k + 1]) + 1)
                       = Append(rcl.strs[b * rcl.k + 1], 0)

\* two blocks, the second starting after entries stored by their suffix
C27_Witness ==
    /\ rcl # <<>> /\ rcl.k = 3 /\ rcl.len = 4 /\ rclq = Idle
    /\ Len(rcl.pointers) = 2 /\ rcl.pointers[2] = 8
    /\ rcl.strs = <<<<97>>, <<97, 98>>, <<97, 98, 98>>, <<98>>>>

\* C28: the retry loop of set_atomic terminates: with finitely many concurrent
\* calls and a fair scheduler every call returns; a compare-exchange of a call
\* fails only when the compare-exchange of another call has changed the word
\* since the call last read it, so a call retries at most as many times as
\* other calls changed its word
C28_SetAtomicTerminates ==
    /\ \A t \in Threads : <>(thr[t].pc = "done")
    /\ [](\A t \in Threads :
             /\ ~thr[t].spurious
             /\ thr[t].retries <= thr[t].changes
             /\ thr[t].retries <= NThreads - 1)

C28_Witness ==
    /\ AllDone
    /\ \E t \in Threads : thr[t].retries >= 1 /\ thr[t].retries = thr[t].changes
    /\ \E t \in Threads : thr[t].retries = 0

(***************************************************************************)
(* The bit-level compare_exchange of the atomic BitMap / CountingBitmap    *)
(***************************************************************************)
\* a call compare_exchange(index, current, new), not yet started; seen is the
\* word found by the compare-exchange of the word, before and after the bits
\* of the bitmap around it
CxCall(i, current, new) ==
    [op |-> "cx", pc |-> "cx_load", index |-> i, current |-> current,
     value |-> new, word_index |-> i \div WORD_BITS, bit_index |-> i % WORD_BITS,
     word |-> {}, cur_word |-> {}, new_word |-> {}, res |-> None,
     seen |-> {}, before |-> {}, after |-> {}, inc |-> {}]

\* compare_exchange_unchecked of BitMap and CountingBitmap after the load of
\* word: cur_word and new_word are built from the word loaded, and the
\* compare-exchange of the whole word decides
cx_step(t, data) ==
    LET clean_word == t.word \cap Not(Shl({0}, t.bit_index))
        cur_word == clean_word \cup Shl(ToWord(t.current), t.bit_index)
        new_word == clean_word \cup Shl(ToWord(t.value), t.bit_index)
        actual == WordAt(data, t.word_index)
        ok == actual = cur_word
        data1 == IF ok THEN SetWord(data, t.word_index, new_word) ELSE data
    IN [ok |-> ok, data |-> data1,
        t |-> [t EXCEPT !.cur_word = cur_word, !.new_word = new_word,
                        !.res = [ok |-> ok, val |-> actual],
                        !.seen = actual, !.before = data.ones,
                        !.after = data1.ones]]

\* inc as usize: (new > current) as isize - (new < current) as isize
CxInc(current, new) ==
    WSub(IF new > current THEN {0} ELSE {}, IF new < current THEN {0} ELSE {})

\* the two threads: the first calls compare_exchange, the second calls
\* compare_exchange or set
CxThreads == {1, 2}

\* the bits set when the calls start
CxInitialOnes == {{}, {0, 64}}

CxInit ==
    /\ atm \in {[data |-> [ones |-> s, len |-> n], counting |-> c,
                 number_of_ones |-> ToWord(Cardinality(s)), counted |-> Undefined] :
                   s \in CxInitialOnes, n \in AtomLen, c \in BOOLEAN}
    /\ \E a \in {CxCall(i, c, v) : i \in AtomIndices, c \in {0, 1}, v \in {0, 1}} :
       \E b \in {CxCall(i, c, v) : i \in AtomIndices, c \in {0, 1}, v \in {0, 1}}
                   \cup {SetCall(i, v) : i \in AtomIndices, v \in {0, 1}} :
          thr = [t \in CxThreads |-> IF t = 1 THEN a ELSE b]
    /\ bv = <<>> /\ r9 = <<>> /\ sel = NoSel /\ rsq = Idle
    /\ efb = <<>> /\ efq = Idle /\ rcl = <<>> /\ rclq = Idle /\ vb = <<>>
    /\ qzi = <<>> /\ cbm = <<>>

\* let word = self.data.get_atomic_unchecked(word_index, Ordering::Acquire)
CxLoad(t) ==
    /\ thr[t].pc = "cx_load"
    /\ thr' = [thr EXCEPT ![t].word = WordAt(atm.data, thr[t].word_index),
                          ![t].pc = "cx_cas"]
    /\ UNCHANGED atm
    /\ UNCHANGED atOthers

\* self.data.compare_exchange_unchecked(word_index, cur_word, new_word, ..)
CxCas(t) ==
    /\ thr[t].pc = "cx_cas"
    /\ LET r == cx_step(thr[t], atm.data)
           me == [r.t EXCEPT !.pc = IF r.ok /\ atm.counting THEN "cx_inc"
                                    ELSE "done"]
       IN /\ atm' = [atm EXCEPT !.data = r.data]
          /\ thr' = [u \in DOMAIN thr |->
                        IF u = t THEN me
                        ELSE IF r.data # atm.data
                           THEN Observe(thr[u], thr[t].word_index)
                        ELSE thr[u]]
    /\ UNCHANGED atOthers

\* if res.is_ok() { self.number_of_ones.fetch_add(inc as usize, Relaxed) }
CxFetchAdd(t) ==
    /\ thr[t].pc = "cx_inc"
    /\ LET inc == CxInc(thr[t].current, thr[t].value)
       IN /\ atm' = [atm EXCEPT !.number_of_ones = WAdd(@, inc)]
          /\ thr' = [thr EXCEPT ![t].pc = "done", ![t].inc = inc]
    /\ UNCHANGED atOthers

CxNext ==
    \/ \E t \in CxThreads : CxLoad(t)
    \/ \E t \in CxThreads : CxCas(t)
    \/ \E t \in CxThreads : CxFetchAdd(t)
    \/ \E t \in CxThreads : AtomLoad(t)
    \/ \E t \in CxThreads : AtomCas(t)
    \/ \E t \in CxThreads : AtomInc(t)

SpecCmpXchg == CxInit /\ [][CxNext]_vars

\* the call of thread t is a compare_exchange whose compare-exchange of the
\* word has taken effect
CxDecided(t) == thr[t].op = "cx" /\ thr[t].pc \in {"cx_inc", "done"}

\* bit i of the bitmap at the moment the compare-exchange took effect
BitAtCas(t) == IF thr[t].bit_index \in thr[t].seen THEN 1 ELSE 0

\* what a successful call does to the bits and to the counter, and a failed one
CxEffect(t) ==
    /\ thr[t].res.ok =>
          /\ thr[t].after = (thr[t].before \ {thr[t].index})
                               \cup (IF thr[t].value = 1 THEN {thr[t].index} ELSE {})
          /\ (atm.counting /\ thr[t].pc = "done") =>
                thr[t].inc = IF thr[t].value > thr[t].current THEN {0}
                             ELSE IF thr[t].value < thr[t].current THEN BitPos
                             ELSE {}
    /\ ~thr[t].res.ok =>
          thr[t].after = thr[t].before /\ thr[t].inc = {}

\* C30: compare_exchange(i, current, new) succeeds if and only if bit i equals
\* current when the operation takes effect, also when other threads change
\* other bits of the same word meanwhile; on success bit i becomes new, no
\* other bit changes and the counter changes by new - current; on failure
\* neither the bits nor the counter change
C30_SucceedsIffBitMatches ==
    \A t \in DOMAIN thr :
        CxDecided(t) =>
            /\ thr[t].res.ok <=> BitAtCas(t) = thr[t].current
            /\ CxEffect(t)

\* what the code guarantees: the call succeeds if and only if bit i equals
\* current and no other bit of the word has changed since the call loaded the
\* word; its effects are those of C30
C30_SucceedsIffWordUnchanged ==
    \A t \in DOMAIN thr :
        CxDecided(t) =>
            /\ thr[t].res.ok <=>
                  /\ BitAtCas(t) = thr[t].current
                  /\ thr[t].seen \ {thr[t].bit_index}
                        = thr[t].word \ {thr[t].bit_index}
            /\ CxEffect(t)

\* a call failed although its bit held `current`
C30_SpuriousFailure ==
    \E t \in DOMAIN thr :
        /\ CxDecided(t) /\ ~thr[t].res.ok
        /\ BitAtCas(t) = thr[t].current

(***************************************************************************)
(* The non-atomic CountingBitmap<Vec<u64>, usize>                          *)
(***************************************************************************)
\* CountingBitmap::new(len); written is the history: the last value written
\* to each index, Undefined if none; underflow records a decrement at 0
CountingBitmap_new(len) ==
    [data |-> [ones |-> {}, len |-> len], number_of_ones |-> 0,
     underflow |-> FALSE, written |-> [i \in 0 .. (len - 1) |-> Undefined],
     got |-> None]

\* set_unchecked that counts every written one and never decrements
cbm_set_unchecked_count_writes(c, index, value) ==
    LET word_index == index \div WORD_BITS
        bit_index == index % WORD_BITS
        word == WordAt(c.data, word_index)
        new_word == NewWord(word, bit_index, value)
    IN [c EXCEPT !.data = SetWord(@, word_index, new_word),
                 !.number_of_ones = @ + value,
                 !.written[index] = value]

\* VSliceMut for CountingBitmap<B, usize>::set_unchecked
cbm_set_unchecked(c, index, value) ==
    LET word_index == index \div WORD_BITS
        bit_index == index % WORD_BITS
        word == WordAt(c.data, word_index)
        new_word == NewWord(word, bit_index, value)
        added == c.number_of_ones + (IF WLess(word, new_word) THEN 1 ELSE 0)
        removed == IF WLess(new_word, word) THEN 1 ELSE 0
    IN [c EXCEPT !.data = SetWord(@, word_index, new_word),
                 !.number_of_ones = IF removed > added THEN 0 ELSE added - removed,
                 !.underflow = @ \/ removed > added,
                 !.written[index] = value]

\* VSlice for CountingBitmap::get_unchecked
cbm_get_unchecked(c, index) ==
    IF index % WORD_BITS \in WordAt(c.data, index \div WORD_BITS) THEN 1 ELSE 0

\* the lengths of the bitmaps and the indices written and read
CbmLens == {1, 66}

CbmIndices(len) == {i \in {0, 1, 63, 64, 65} : i < len}

cbOthers == <<bv, r9, sel, rsq, efb, efq, rcl, rclq, vb, atm, thr, qzi>>

CBInit ==
    /\ cbm \in {CountingBitmap_new(len) : len \in CbmLens}
    /\ bv = <<>> /\ r9 = <<>> /\ sel = NoSel /\ rsq = Idle
    /\ efb = <<>> /\ efq = Idle /\ rcl = <<>> /\ rclq = Idle
    /\ vb = <<>> /\ atm = <<>> /\ thr = <<>> /\ qzi = <<>>

\* set(index, value) with index < len and value in {0, 1}
CbmSet ==
    /\ \E index \in CbmIndices(cbm.data.len), value \in {0, 1} :
          cbm' = [cbm_set_unchecked(cbm, index, value) EXCEPT !.got = None]
    /\ UNCHANGED cbOthers

\* get(index) with index < len
CbmGet ==
    /\ \E index \in CbmIndices(cbm.data.len) :
          cbm' = [cbm EXCEPT !.got =
                     [index |-> index, val |-> cbm_get_unchecked(cbm, index)]]
    /\ UNCHANGED cbOthers

CBNext == CbmSet \/ CbmGet

SpecCountingBitmap == CBInit /\ [][CBNext]_vars

\* C29: on a non-atomic CountingBitmap made by new(len), after any sequence of
\* set(i, b) with i < len and b in {0, 1}, count() is the number of set bits,
\* 0 <= count() <= len and the counter never underflows, get(i) is the last
\* value written to i, 0 if none, and a set changes no bit but bit i
C29_CountAndBits ==
    cbm # <<>> =>
        /\ cbm.number_of_ones = Cardinality(cbm.data.ones)
        /\ 0 <= cbm.number_of_ones /\ cbm.number_of_ones <= cbm.data.len
        /\ ~cbm.underflow
        /\ cbm.data.ones = {i \in DOMAIN cbm.written : cbm.written[i] = 1}
        /\ cbm.got # None =>
              cbm.got.val = IF cbm.written[cbm.got.index] = Undefined THEN 0
                            ELSE cbm.written[cbm.got.index]

\* a zero was written to bit 1 and is read back, the other bits of its word
\* and of the next word keeping what was written to them
C29_Witness ==
    /\ cbm # <<>> /\ cbm.data.len = 66
    /\ cbm.written[1] = 0 /\ cbm.written[0] = 1 /\ cbm.written[63] = 1
    /\ cbm.written[64] = 1 /\ cbm.written[65] = Undefined
    /\ cbm.number_of_ones = 3
    /\ cbm.got # None /\ cbm.got.index = 1 /\ cbm.got.val = 0

=============================================================================
